---- MODULE Spec2Model ----
(***************************************************************************)
(* FinanceBot: the ledger (db/database_manager.py), the scheduler          *)
(* (core/scheduler.py), the conversation state store (core/bot_manager.py) *)
(* and the chat handlers (handlers/*.py) as one state machine.             *)
(*                                                                         *)
(* Amounts are whole currency units: on whole numbers the range check     *)
(* 0.01 <= monto <= 999999999.99 is 1 <= monto <= 999999999.  A date is a  *)
(* record [y, m, d]; SQLite stores it as ISO text and compares it as text, *)
(* which IsoKey reproduces.  A table is a set of rows; the AUTOINCREMENT   *)
(* counters of sqlite_sequence are the variable seq.                       *)
(***************************************************************************)
EXTENDS Integers, Sequences, FiniteSets, TLC

\* ------------------------------------------------------------ bounds
MaxMovimientos == 2     \* rows ever inserted into movimientos
MaxSuscripciones == 1   \* rows ever inserted into suscripciones
MaxAlertas == 2         \* rows ever inserted into alertas
MaxTicks == 2           \* advances of the wall clock
MaxInserciones == 3     \* keys ever inserted into the state store
MAX_USER_STATES == 2    \* BotConfig.MAX_USER_STATES, read from the environment
MaxHilos == 6           \* threads that use the connection pool
MaxArranques == 2       \* worker threads start() ever creates
MaxRecordatorios == 2   \* rows ever inserted into recordatorios
MaxDeudas == 1          \* rows ever inserted into deudas

\* ------------------------------------------------------------ program constants
MIN_AMOUNT == 1
MAX_AMOUNT == 999999999
STATE_TIMEOUT == 7200
AUTHORIZED_USER_ID == 42
MAX_CONNECTIONS == 5

MAX_DESCRIPTION_LENGTH == 500
MAX_CATEGORY_NAME_LENGTH == 50
MAX_SUBSCRIPTION_NAME_LENGTH == 100

MOVEMENT_TYPES == {"ingreso", "gasto", "ahorro"}
ALERT_TYPES == {"diario", "mensual"}
DEBT_TYPES == {"positiva", "negativa"}

\* ------------------------------------------------------------ principals
Users == {42, 7}

Hilos == 1..MaxHilos

\* ------------------------------------------------------------ calendar
isleap(y) == (y % 4 = 0 /\ y % 100 # 0) \/ y % 400 = 0

monthrange(y, m) ==
    IF m = 2 THEN (IF isleap(y) THEN 29 ELSE 28)
    ELSE IF m \in {4, 6, 9, 11} THEN 30
    ELSE 31

date(y, m, d) == [y |-> y, m |-> m, d |-> d]

ValidDate(y, m, d) == m \in 1..12 /\ d >= 1 /\ d <= monthrange(y, m)

IsoKey(f) == f.y * 10000 + f.m * 100 + f.d

Min(a, b) == IF a <= b THEN a ELSE b

VARIABLES
    hoy,              \* date.today()
    now,              \* time.time(), seconds
    ticks,            \* advances of the clock so far
    usuarios,         \* table usuarios: user_id -> [balance_inicial, configurado]
    categorias,       \* table categorias
    movimientos,      \* table movimientos
    suscripciones,    \* table suscripciones
    alertas,          \* table alertas
    resumen_mensual,  \* table resumen_mensual (cache)
    balance_diario,   \* table balance_diario (cache)
    notificaciones,   \* table notificaciones_pendientes (the outbox)
    seq,              \* sqlite_sequence: table -> last AUTOINCREMENT id
    user_states,      \* BotManager.user_states, in dict insertion order
    inserciones,      \* how many keys were ever inserted into user_states
    llamada,          \* the last call on the state store: what it returned and logged
    pendientes,       \* rows the running _verificar_suscripciones still has to process
    cobros,           \* log of the charges procesar_suscripcion made: [sid, fecha, mov]
    update,           \* the inbound chat event being handled
    recordatorios,    \* table recordatorios
    enviados,         \* what the scheduler handed to bot.send_message, delivered or not
    error,            \* the last error an operation logged: which one, and where
    conexiones,       \* ConnectionPool._connections: how many connections it retains
    hilos,            \* per thread, where it is in a get_connection scope
    ultima,           \* how the last get_connection scope ended
    running,          \* TaskScheduler.running
    scheduler_thread, \* TaskScheduler.scheduler_thread: a worker id, 0 for None
    workers,          \* the worker threads start() created
    orden,            \* the last call made on the scheduler: start or stop
    deudas,           \* table deudas
    fallidos,         \* the messages of enviados on which bot.send_message raised
    barrido,          \* the cleanup_old_states call in progress on the scheduler's thread
    puestas,          \* per handler thread, the set_user_state call it is in
    bot,              \* BotManager.is_running and where start_polling or shutdown is
    lectura           \* the read of the ledger in progress: what it has fetched so far

ledger == <<usuarios, categorias, movimientos, suscripciones, alertas, resumen_mensual,
            balance_diario, seq>>

vars == <<hoy, now, ticks, usuarios, categorias, movimientos, suscripciones, alertas,
          resumen_mensual, balance_diario, notificaciones, seq, user_states,
          inserciones, llamada, pendientes, cobros, update,
          recordatorios, enviados, error, conexiones, hilos, ultima, running,
          scheduler_thread, workers, orden, deudas, fallidos, barrido, puestas, bot,
          lectura>>

\* the calls in progress on the state store, the bot's life cycle and the read in
\* progress, for the operations that touch none of them
procesos == <<barrido, puestas, bot, lectura>>

\* the connection pool and the scheduler worker, for the operations that use neither
pool == <<conexiones, hilos, ultima>>

planificador == <<running, scheduler_thread, workers, orden>>

\* ------------------------------------------------------------ aggregation
RECURSIVE SumMonto(_)
SumMonto(S) ==
    IF S = {} THEN 0
    ELSE LET r == CHOOSE x \in S : TRUE IN r.monto + SumMonto(S \ {r})

\* SUM(CASE WHEN tipo = 'ingreso' THEN monto WHEN tipo = 'gasto' THEN -monto
\*          WHEN tipo = 'ahorro' THEN -monto ELSE 0 END)
SignoAhorroInvertido(tipo, monto) ==
    IF tipo = "ingreso" THEN monto
    ELSE IF tipo = "gasto" THEN -monto
    ELSE IF tipo = "ahorro" THEN monto
    ELSE 0

CasoFirmado(tipo, monto) ==
    IF tipo = "ingreso" THEN monto
    ELSE IF tipo = "gasto" THEN -monto
    ELSE IF tipo = "ahorro" THEN -monto
    ELSE 0

RECURSIVE SumFirmada(_)
SumFirmada(S) ==
    IF S = {} THEN 0
    ELSE LET r == CHOOSE x \in S : TRUE
         IN CasoFirmado(r.tipo, r.monto) + SumFirmada(S \ {r})

obtener_balance_actual(user_id) ==
    LET balance_inicial == IF user_id \in DOMAIN usuarios
                           THEN usuarios[user_id].balance_inicial ELSE 0
        total_movimientos == SumFirmada({r \in movimientos : r.user_id = user_id})
    IN balance_inicial + total_movimientos

\* SELECT tipo, SUM(monto) ... WHERE user_id = ? AND mes = ? AND año = ? GROUP BY tipo
FilasDelMesSinAnio(movs, user_id, mes, anio) ==
    {r \in movs : r.user_id = user_id /\ r.mes = mes}

FilasDelMes(movs, user_id, mes, anio) ==
    {r \in movs : r.user_id = user_id /\ r.mes = mes /\ r.anio = anio}

calcular_resumen_mensual(user_id, mes, anio) ==
    LET filas == FilasDelMes(movimientos, user_id, mes, anio)
        totales == [t \in MOVEMENT_TYPES |-> SumMonto({r \in filas : r.tipo = t})]
    IN [mes |-> mes, anio |-> anio,
        ingresos |-> totales["ingreso"],
        gastos |-> totales["gasto"],
        ahorros |-> totales["ahorro"],
        balance |-> obtener_balance_actual(user_id)]

obtener_resumen_mes(user_id, mes, anio) ==
    IF mes = 0 \/ anio = 0
    THEN calcular_resumen_mensual(user_id, hoy.m, hoy.y)
    ELSE calcular_resumen_mensual(user_id, mes, anio)

\* SELECT tipo, SUM(monto) ... WHERE user_id = ? AND fecha = ? GROUP BY tipo
FilasDelDia(movs, user_id, fecha) ==
    {r \in movs : r.user_id = user_id /\ IsoKey(r.fecha) = IsoKey(fecha)}

obtener_balance_diario(user_id, fecha) ==
    LET filas == FilasDelDia(movimientos, user_id, fecha)
    IN [balance_actual |-> obtener_balance_actual(user_id),
        ingresos_hoy |-> SumMonto({r \in filas : r.tipo = "ingreso"}),
        gastos_hoy |-> SumMonto({r \in filas : r.tipo = "gasto"}),
        ahorros_hoy |-> SumMonto({r \in filas : r.tipo = "ahorro"})]

\* ------------------------------------------------------------ cache and alert helpers
Put(f, k, v) == [x \in (DOMAIN f) \cup {k} |-> IF x = k THEN v ELSE f[x]]

\* DELETE FROM resumen_mensual WHERE user_id = ? AND mes = ? AND año = ?
invalidar_resumen_mensual(tabla, user_id, mes, anio) ==
    {r \in tabla : ~(r.user_id = user_id /\ r.mes = mes /\ r.anio = anio)}

\* INSERT OR REPLACE INTO balance_diario: the row of (fecha, user_id) is recomputed
actualizar_balance_diario(tabla, movs, user_id, fecha) ==
    LET filas == FilasDelDia(movs, user_id, fecha)
        fila == [fecha |-> fecha, user_id |-> user_id,
                 ingresos |-> SumMonto({r \in filas : r.tipo = "ingreso"}),
                 gastos |-> SumMonto({r \in filas : r.tipo = "gasto"}),
                 ahorros |-> SumMonto({r \in filas : r.tipo = "ahorro"})]
    IN {r \in tabla : ~(r.fecha = fecha /\ r.user_id = user_id)} \cup {fila}

guardar_notificacion_alerta(notifs, id, user_id, tipo, limite, gastado) ==
    notifs \cup {[id |-> id, user_id |-> user_id, tipo |-> "alerta_limite",
                  datos |-> [tipo |-> tipo, limite |-> limite, gastado |-> gastado,
                             exceso |-> gastado - limite],
                  procesada |-> FALSE]}

\* if gastos_dia > alerta_diaria[0] / if gastos_mes > alerta_mensual[0]
SuperaOIguala(gastado, limite) == gastado >= limite

Supera(gastado, limite) == gastado > limite

AlertaActiva(user_id, tipo) ==
    {a \in alertas : a.user_id = user_id /\ a.tipo = tipo /\ a.activa}

GastosDelDia(movs, user_id, fecha) ==
    SumMonto({r \in FilasDelDia(movs, user_id, fecha) : r.tipo = "gasto"})

GastosDelMes(movs, user_id, mes, anio) ==
    SumMonto({r \in FilasDelMes(movs, user_id, mes, anio) : r.tipo = "gasto"})

\* The outbox, its counter and the cursor's rowcount after the alert checks.
\* rowcount is -1 after a SELECT and 1 after an INSERT; rc0 is what it was before.
verificar_alertas_limites(notifs, n, movs, user_id, tipo_movimiento, rc0) ==
    IF tipo_movimiento # "gasto"
    THEN [notifs |-> notifs, n |-> n, rowcount |-> rc0]
    ELSE
      LET ad == AlertaActiva(user_id, "diario")
          gastos_dia == GastosDelDia(movs, user_id, hoy)
          fd == ad # {} /\ Supera(gastos_dia, (CHOOSE a \in ad : TRUE).limite)
          n1 == IF fd THEN n + 1 ELSE n
          t1 == IF fd
                THEN guardar_notificacion_alerta(notifs, n1, user_id, "diario",
                         (CHOOSE a \in ad : TRUE).limite, gastos_dia)
                ELSE notifs
          am == AlertaActiva(user_id, "mensual")
          gastos_mes == GastosDelMes(movs, user_id, hoy.m, hoy.y)
          fm == am # {} /\ Supera(gastos_mes, (CHOOSE a \in am : TRUE).limite)
          n2 == IF fm THEN n1 + 1 ELSE n1
          t2 == IF fm
                THEN guardar_notificacion_alerta(t1, n2, user_id, "mensual",
                         (CHOOSE a \in am : TRUE).limite, gastos_mes)
                ELSE t1
      IN [notifs |-> t2, n |-> n2, rowcount |-> IF fm THEN 1 ELSE -1]

\* ------------------------------------------------------------ usuarios
crear_usuario(user_id) ==
    /\ usuarios' = Put(usuarios, user_id, [balance_inicial |-> 0, configurado |-> FALSE])
    /\ UNCHANGED <<hoy, now, ticks, categorias, movimientos, suscripciones, alertas,
                   resumen_mensual, balance_diario, notificaciones, seq, user_states,
                   inserciones, llamada, pendientes, cobros, update,
                   recordatorios, enviados, error, pool, planificador,
                   deudas, fallidos, procesos>>

actualizar_balance_inicial(user_id, balance) ==
    /\ usuarios' = IF user_id \in DOMAIN usuarios
                   THEN [usuarios EXCEPT ![user_id].balance_inicial = balance]
                   ELSE usuarios
    /\ UNCHANGED <<hoy, now, ticks, categorias, movimientos, suscripciones, alertas,
                   resumen_mensual, balance_diario, notificaciones, seq, user_states,
                   inserciones, llamada, pendientes, cobros, update,
                   recordatorios, enviados, error, pool, planificador,
                   deudas, fallidos, procesos>>

\* ------------------------------------------------------------ movimientos
\* VALUES (hoy, ..., hoy.month, hoy.year, user_id), hoy read once from date.today()
MovimientoDeOtroPeriodo(id, user_id, tipo, categoria, monto, descripcion) ==
    [id |-> id, fecha |-> hoy, tipo |-> tipo, categoria |-> categoria, monto |-> monto,
     descripcion |-> descripcion, mes |-> hoy.d, anio |-> hoy.y, user_id |-> user_id]

NuevoMovimiento(id, user_id, tipo, categoria, monto, descripcion) ==
    [id |-> id, fecha |-> hoy, tipo |-> tipo, categoria |-> categoria, monto |-> monto,
     descripcion |-> descripcion, mes |-> hoy.m, anio |-> hoy.y, user_id |-> user_id]

agregar_movimiento(user_id, tipo, categoria, monto, descripcion) ==
    IF tipo \notin MOVEMENT_TYPES \/ ~(MIN_AMOUNT <= monto /\ monto <= MAX_AMOUNT)
    THEN UNCHANGED <<movimientos, resumen_mensual, balance_diario, notificaciones, seq>>
    ELSE
      LET id == seq.movimientos + 1
          movs == movimientos \cup
                  {NuevoMovimiento(id, user_id, tipo, categoria, monto, descripcion)}
          v == verificar_alertas_limites(notificaciones, seq.notificaciones, movs,
                                         user_id, tipo, 1)
      IN /\ seq.movimientos < MaxMovimientos
         /\ movimientos' = movs
         /\ resumen_mensual' = invalidar_resumen_mensual(resumen_mensual, user_id,
                                                         hoy.m, hoy.y)
         /\ balance_diario' = actualizar_balance_diario(balance_diario, movs, user_id, hoy)
         /\ notificaciones' = v.notifs
         /\ seq' = [seq EXCEPT !.movimientos = id, !.notificaciones = v.n]

\* a caller outside the chat handlers
AgregarMovimiento(user_id, tipo, categoria, monto, descripcion) ==
    /\ agregar_movimiento(user_id, tipo, categoria, monto, descripcion)
    /\ UNCHANGED <<hoy, now, ticks, usuarios, categorias, suscripciones, alertas,
                   user_states, inserciones, llamada, pendientes, cobros, update,
                   recordatorios, enviados, error, pool, planificador,
                   deudas, fallidos, procesos>>

\* except Exception in _verificar_alertas_limites: the error is logged and the
\* transaction goes on with what was written before it (antes: the tables when the
\* operation began, trabajo: the tables when the error was raised)
ErrorPropagado(antes, trabajo) == antes

ErrorRegistrado(antes, trabajo) == trabajo

\* _verificar_alertas_limites raising while it checks the alert of scope paso: the
\* daily check comes first, so an error there skips both; what was enqueued stays
alertas_hasta_el_error(notifs, n, movs, user_id, paso) ==
    LET ad == AlertaActiva(user_id, "diario")
        gastos_dia == GastosDelDia(movs, user_id, hoy)
        fd == /\ paso = "mensual"
              /\ ad # {}
              /\ Supera(gastos_dia, (CHOOSE a \in ad : TRUE).limite)
    IN IF fd
       THEN [notifs |-> guardar_notificacion_alerta(notifs, n + 1, user_id, "diario",
                            (CHOOSE a \in ad : TRUE).limite, gastos_dia),
             n |-> n + 1]
       ELSE [notifs |-> notifs, n |-> n]

\* agregar_movimiento of a valid expense whose alert evaluation raises
AgregarMovimientoConFalla(user_id, categoria, monto, descripcion, paso) ==
    LET id == seq.movimientos + 1
        movs == movimientos \cup
                {NuevoMovimiento(id, user_id, "gasto", categoria, monto, descripcion)}
        v == alertas_hasta_el_error(notificaciones, seq.notificaciones, movs, user_id,
                                    paso)
        antes == [movimientos |-> movimientos, resumen_mensual |-> resumen_mensual,
                  balance_diario |-> balance_diario, notificaciones |-> notificaciones,
                  seq |-> seq]
        trabajo == [movimientos |-> movs,
                    resumen_mensual |-> invalidar_resumen_mensual(resumen_mensual,
                                            user_id, hoy.m, hoy.y),
                    balance_diario |-> actualizar_balance_diario(balance_diario, movs,
                                           user_id, hoy),
                    notificaciones |-> v.notifs,
                    seq |-> [seq EXCEPT !.movimientos = id, !.notificaciones = v.n]]
        queda == ErrorRegistrado(antes, trabajo)
    IN /\ MIN_AMOUNT <= monto /\ monto <= MAX_AMOUNT
       /\ seq.movimientos < MaxMovimientos
       /\ movimientos' = queda.movimientos
       /\ resumen_mensual' = queda.resumen_mensual
       /\ balance_diario' = queda.balance_diario
       /\ notificaciones' = queda.notificaciones
       /\ seq' = queda.seq
       /\ error' = [op |-> "verificar_alertas_limites", paso |-> paso]
       /\ UNCHANGED <<hoy, now, ticks, usuarios, categorias, suscripciones, alertas,
                      user_states, inserciones, llamada, pendientes, cobros, update,
                      recordatorios, enviados, pool, planificador,
                      deudas, fallidos, procesos>>

eliminar_movimiento(movimiento_id, user_id) ==
    LET result == {r \in movimientos : r.id = movimiento_id /\ r.user_id = user_id}
    IN IF result = {}
       THEN UNCHANGED <<hoy, now, ticks, usuarios, categorias, movimientos,
                        suscripciones, alertas, resumen_mensual, balance_diario,
                        notificaciones, seq, user_states, inserciones, llamada,
                        pendientes, cobros, update,
                        recordatorios, enviados, error, pool, planificador,
                        deudas, fallidos, procesos>>
       ELSE LET fila == CHOOSE r \in result : TRUE
            IN /\ movimientos' = movimientos \ result
               /\ resumen_mensual' = invalidar_resumen_mensual(resumen_mensual, user_id,
                                                               fila.mes, fila.anio)
               /\ UNCHANGED <<hoy, now, ticks, usuarios, categorias, suscripciones,
                              alertas, balance_diario, notificaciones, seq, user_states,
                              inserciones, llamada, pendientes, cobros, update,
                              recordatorios, enviados, error, pool, planificador,
                              deudas, fallidos, procesos>>

\* ------------------------------------------------------------ suscripciones
\* proximo_cobro of a new subscription; date() raises ValueError on a day the month lacks
ProximoCobroAltaSinAjuste(dia_cobro) ==
    IF dia_cobro <= hoy.d
    THEN IF hoy.m = 12
         THEN date(hoy.y + 1, 1, dia_cobro)
         ELSE date(hoy.y, hoy.m + 1, dia_cobro)
    ELSE date(hoy.y, hoy.m, dia_cobro)

ProximoCobroAlta(dia_cobro) ==
    IF dia_cobro <= hoy.d
    THEN IF hoy.m = 12
         THEN date(hoy.y + 1, 1, Min(dia_cobro, 31))
         ELSE date(hoy.y, hoy.m + 1, Min(dia_cobro, monthrange(hoy.y, hoy.m + 1)))
    ELSE date(hoy.y, hoy.m, dia_cobro)

\* a day or an amount out of range is refused and logged; the ValueError of date() is
\* caught by except Exception and logged
agregar_suscripcion(user_id, nombre, monto, categoria, dia_cobro) ==
    LET proximo_cobro == ProximoCobroAlta(dia_cobro)
        id == seq.suscripciones + 1
    IN IF ~(1 <= dia_cobro /\ dia_cobro <= 31)
       THEN /\ error' = [op |-> "agregar_suscripcion", paso |-> "dia_cobro"]
            /\ UNCHANGED <<suscripciones, seq>>
       ELSE IF ~(MIN_AMOUNT <= monto /\ monto <= MAX_AMOUNT)
       THEN /\ error' = [op |-> "agregar_suscripcion", paso |-> "monto"]
            /\ UNCHANGED <<suscripciones, seq>>
       ELSE IF ~ValidDate(proximo_cobro.y, proximo_cobro.m, proximo_cobro.d)
       THEN /\ error' = [op |-> "agregar_suscripcion", paso |-> "date"]
            /\ UNCHANGED <<suscripciones, seq>>
       ELSE /\ seq.suscripciones < MaxSuscripciones
            /\ suscripciones' = suscripciones \cup
                   {[id |-> id, nombre |-> nombre, monto |-> monto, categoria |-> categoria,
                     dia_cobro |-> dia_cobro, activo |-> TRUE,
                     proximo_cobro |-> proximo_cobro, user_id |-> user_id]}
            /\ seq' = [seq EXCEPT !.suscripciones = id]
            /\ UNCHANGED error

\* a caller outside the chat handlers
AgregarSuscripcion(user_id, nombre, monto, categoria, dia_cobro) ==
    /\ agregar_suscripcion(user_id, nombre, monto, categoria, dia_cobro)
    /\ UNCHANGED <<hoy, now, ticks, usuarios, categorias, movimientos, alertas,
                   resumen_mensual, balance_diario, notificaciones, user_states,
                   inserciones, llamada, pendientes, cobros, update,
                   recordatorios, enviados, pool, planificador,
                   deudas, fallidos, procesos>>

desactivar_suscripcion(suscripcion_id, user_id) ==
    LET filas == {s \in suscripciones : s.id = suscripcion_id /\ s.user_id = user_id}
    IN /\ suscripciones' = (suscripciones \ filas) \cup
                               {[s EXCEPT !.activo = FALSE] : s \in filas}
       /\ UNCHANGED <<hoy, now, ticks, usuarios, categorias, movimientos, alertas,
                      resumen_mensual, balance_diario, notificaciones, seq, user_states,
                      inserciones, llamada, pendientes, cobros, update,
                      recordatorios, enviados, error, pool, planificador,
                      deudas, fallidos, procesos>>

\* WHERE activo = 1 AND proximo_cobro <= hoy
obtener_suscripciones_pendientes ==
    {s.id : s \in {x \in suscripciones : x.activo /\ IsoKey(x.proximo_cobro) <= IsoKey(hoy)}}

\* the month after hoy, December rolling over to January
MismoMes(f) == [y |-> f.y, m |-> f.m]

ProximoMes(f) == IF f.m = 12 THEN [y |-> f.y + 1, m |-> 1] ELSE [y |-> f.y, m |-> f.m + 1]

\* dia_ajustado = min(dia_cobro, max_dia)
SinAjuste(dia_cobro, max_dia) == dia_cobro

DiaAjustado(dia_cobro, max_dia) == Min(dia_cobro, max_dia)

\* proximo_mes = hoy.month + 1, or January of the next year
ProximoCobroEnDosMeses(dia_cobro) ==
    LET p == ProximoMes(ProximoMes(hoy))
    IN date(p.y, p.m, DiaAjustado(dia_cobro, monthrange(p.y, p.m)))

ProximoCobro(dia_cobro) ==
    LET p == ProximoMes(hoy)
    IN date(p.y, p.m, DiaAjustado(dia_cobro, monthrange(p.y, p.m)))

DescripcionSuscripcion(nombre) == "Suscripción: " \o nombre

\* SELECT ... FROM suscripciones WHERE id = ? AND activo = 1 LIMIT 1
FilaConId(suscripcion_id) == {s \in suscripciones : s.id = suscripcion_id}

FilaActiva(suscripcion_id) == {s \in suscripciones : s.id = suscripcion_id /\ s.activo}

procesar_suscripcion(suscripcion_id) ==
    LET result == FilaActiva(suscripcion_id)
    IN IF result = {}
       THEN UNCHANGED <<movimientos, suscripciones, resumen_mensual, seq, cobros>>
       ELSE LET s == CHOOSE x \in result : TRUE
                id == seq.movimientos + 1
            IN /\ seq.movimientos < MaxMovimientos
               /\ movimientos' = movimientos \cup
                      {NuevoMovimiento(id, s.user_id, "gasto", s.categoria, s.monto,
                                       DescripcionSuscripcion(s.nombre))}
               /\ suscripciones' = (suscripciones \ {s}) \cup
                      {[s EXCEPT !.proximo_cobro = ProximoCobro(s.dia_cobro)]}
               /\ resumen_mensual' = invalidar_resumen_mensual(resumen_mensual, s.user_id,
                                                               hoy.m, hoy.y)
               /\ seq' = [seq EXCEPT !.movimientos = id]
               /\ cobros' = cobros \cup {[sid |-> s.id, fecha |-> hoy, mov |-> id]}

\* get_connection, except Exception: conn.rollback() undoes what the scope wrote
SinRollback(antes, trabajo) == trabajo

conn_rollback(antes, trabajo) == antes

\* procesar_suscripcion of an active row with a statement raising part-way: paso
\* "insert" is the INSERT of the charge, "update" the UPDATE of proximo_cobro (both
\* leave the scope by the exception), "invalidar" the DELETE of the cached summary,
\* which _invalidar_resumen_mensual catches itself, so the scope commits
procesar_suscripcion_con_error(suscripcion_id, paso) ==
    LET s == CHOOSE x \in suscripciones : x.id = suscripcion_id /\ x.activo
        id == seq.movimientos + 1
        cargo == NuevoMovimiento(id, s.user_id, "gasto", s.categoria, s.monto,
                                 DescripcionSuscripcion(s.nombre))
        avanzada == (suscripciones \ {s}) \cup
                        {[s EXCEPT !.proximo_cobro = ProximoCobro(s.dia_cobro)]}
        antes == [movimientos |-> movimientos, suscripciones |-> suscripciones,
                  seq |-> seq]
        trabajo == [movimientos |-> IF paso = "insert" THEN movimientos
                                    ELSE movimientos \cup {cargo},
                    suscripciones |-> IF paso = "invalidar" THEN avanzada
                                      ELSE suscripciones,
                    seq |-> IF paso = "insert" THEN seq
                            ELSE [seq EXCEPT !.movimientos = id]]
        queda == IF paso = "invalidar" THEN trabajo ELSE conn_rollback(antes, trabajo)
    IN /\ \E x \in suscripciones : x.id = suscripcion_id /\ x.activo
       /\ seq.movimientos < MaxMovimientos
       /\ movimientos' = queda.movimientos
       /\ suscripciones' = queda.suscripciones
       /\ seq' = queda.seq
       /\ cobros' = IF paso = "invalidar"
                    THEN cobros \cup {[sid |-> s.id, fecha |-> hoy, mov |-> id]}
                    ELSE cobros
       /\ error' = [op |-> IF paso = "invalidar" THEN "invalidar_resumen_mensual"
                           ELSE "procesar_suscripcion",
                    paso |-> paso]
       /\ UNCHANGED resumen_mensual

\* ------------------------------------------------------------ alertas
\* INSERT OR REPLACE on UNIQUE(tipo, user_id): the old row goes, a new active one comes
agregar_alerta(user_id, tipo, limite) ==
    IF tipo \notin ALERT_TYPES
    THEN UNCHANGED <<alertas, seq>>
    ELSE LET id == seq.alertas + 1
         IN /\ seq.alertas < MaxAlertas
            /\ alertas' = {a \in alertas : ~(a.tipo = tipo /\ a.user_id = user_id)} \cup
                   {[id |-> id, tipo |-> tipo, limite |-> limite, activa |-> TRUE,
                     user_id |-> user_id]}
            /\ seq' = [seq EXCEPT !.alertas = id]

AgregarAlerta(user_id, tipo, limite) ==
    /\ agregar_alerta(user_id, tipo, limite)
    /\ UNCHANGED <<hoy, now, ticks, usuarios, categorias, movimientos, suscripciones,
                   resumen_mensual, balance_diario, notificaciones, user_states,
                   inserciones, llamada, pendientes, cobros, update,
                   recordatorios, enviados, error, pool, planificador,
                   deudas, fallidos, procesos>>

desactivar_alerta(alerta_id, user_id) ==
    LET filas == {a \in alertas : a.id = alerta_id /\ a.user_id = user_id}
    IN /\ alertas' = (alertas \ filas) \cup {[a EXCEPT !.activa = FALSE] : a \in filas}
       /\ UNCHANGED <<hoy, now, ticks, usuarios, categorias, movimientos, suscripciones,
                      resumen_mensual, balance_diario, notificaciones, seq, user_states,
                      inserciones, llamada, pendientes, cobros, update,
                      recordatorios, enviados, error, pool, planificador,
                      deudas, fallidos, procesos>>

\* ------------------------------------------------------------ recordatorios y deudas
\* INSERT INTO recordatorios (descripcion, monto, fecha_vencimiento, user_id)
agregar_recordatorio(user_id, descripcion, fecha_vencimiento) ==
    LET id == seq.recordatorios + 1
    IN /\ seq.recordatorios < MaxRecordatorios
       /\ recordatorios' = recordatorios \cup
              {[id |-> id, descripcion |-> descripcion,
                fecha_vencimiento |-> fecha_vencimiento, activo |-> TRUE,
                user_id |-> user_id]}
       /\ seq' = [seq EXCEPT !.recordatorios = id]

\* len(nombre) > BotConstants.MAX_DEBT_NAME_LENGTH: whatever the limit of the field
\* is, the few letters of the names used here are under it
nombre_deuda_muy_largo(nombre) == FALSE

\* abs(monto)
abs(monto) == IF monto < 0 THEN -monto ELSE monto

\* INSERT INTO deudas (nombre, monto, tipo, descripcion, user_id), the amount as abs(monto)
agregar_deuda(user_id, nombre, monto, tipo) ==
    IF tipo \notin DEBT_TYPES \/ nombre_deuda_muy_largo(nombre)
    THEN UNCHANGED <<deudas, seq>>
    ELSE LET id == seq.deudas + 1
         IN /\ seq.deudas < MaxDeudas
            /\ deudas' = deudas \cup
                   {[id |-> id, nombre |-> nombre, monto |-> abs(monto), tipo |-> tipo,
                     activa |-> TRUE, user_id |-> user_id]}
            /\ seq' = [seq EXCEPT !.deudas = id]

\* ------------------------------------------------------------ the outbox
LIMITE_NOTIFICACIONES == 100

\* SELECT ... FROM notificaciones_pendientes WHERE procesada = 0 ORDER BY
\* fecha_creacion LIMIT 100: fecha_creacion grows with id, so a row is listed when
\* fewer than a hundred unprocessed rows come before it
obtener_notificaciones_pendientes ==
    LET sin_procesar == {n \in notificaciones : ~n.procesada}
    IN {n \in sin_procesar :
          Cardinality({o \in sin_procesar : o.id < n.id}) < LIMITE_NOTIFICACIONES}

\* UPDATE notificaciones_pendientes SET procesada = 1 WHERE id = ?
marcar_notificacion_procesada(tabla, notificacion_id) ==
    {IF n.id = notificacion_id THEN [n EXCEPT !.procesada = TRUE] ELSE n : n \in tabla}

\* ------------------------------------------------------------ conversation state store
\* The store as a value: st the dict in insertion order, n the keys ever inserted,
\* ll the last call.  A handler threads it through the calls it makes.
Almacen == [st |-> user_states, n |-> inserciones, ll |-> llamada]

Claves(store) == {store[i].user_id : i \in 1..Len(store)}

Posicion(store, user_id) == CHOOSE i \in 1..Len(store) : store[i].user_id = user_id

\* self.user_states.get(user_id): the state, or nothing
dict_get(store, user_id) ==
    {store[i].state : i \in {j \in 1..Len(store) : store[j].user_id = user_id}}

get_user_state(S, user_id) ==
    [S EXCEPT !.ll = [op |-> "get", user_id |-> user_id, res |-> dict_get(S.st, user_id),
                      log |-> {}]]

\* del self.user_states[next(iter(self.user_states))]
SinDesalojo(store) == store

SinElMasReciente(store) == SubSeq(store, 1, Len(store) - 1)

SinElMasAntiguo(store) == Tail(store)

\* self.user_states[user_id] = state: a present key keeps its place, a new one goes last
Asignar(store, user_id, state, ins) ==
    IF user_id \in Claves(store)
    THEN [store EXCEPT ![Posicion(store, user_id)].state = state]
    ELSE Append(store, [user_id |-> user_id, state |-> state, ins |-> ins])

set_user_state(S, user_id, state) ==
    LET s1 == IF Len(S.st) >= MAX_USER_STATES THEN SinElMasAntiguo(S.st) ELSE S.st
    IN [st |-> Asignar(s1, user_id, state, S.n + 1),
        n |-> IF user_id \in Claves(s1) THEN S.n ELSE S.n + 1,
        ll |-> [op |-> "set", user_id |-> user_id, res |-> {},
                log |-> Claves(S.st) \ Claves(s1)]]

\* the handlers' _set_user_state: state['timestamp'] = time.time(), then set_user_state
handlers_set_user_state(S, user_id, state) ==
    set_user_state(S, user_id, [state EXCEPT !.timestamp = now])

\* self.user_states.pop(user_id, None)
clear_user_state(S, user_id) ==
    [S EXCEPT !.st = SelectSeq(S.st, LAMBDA e : e.user_id # user_id),
              !.ll = [op |-> "clear", user_id |-> user_id, res |-> {}, log |-> {}]]

\* if current_time - state['timestamp'] > timeout
ExpiradoOJusto(current_time, timestamp) == current_time - timestamp >= STATE_TIMEOUT

Expirado(current_time, timestamp) == current_time - timestamp > STATE_TIMEOUT

cleanup_old_states(S) ==
    LET quedan == SelectSeq(S.st, LAMBDA e : ~Expirado(now, e.state.timestamp))
    IN [S EXCEPT !.st = quedan,
                 !.ll = [op |-> "cleanup", user_id |-> 0, res |-> {},
                         log |-> Claves(S.st) \ Claves(quedan)]]

\* the store after a handler: S is what its calls made of Almacen
Deja(S) ==
    /\ S.n <= MaxInserciones
    /\ user_states' = S.st
    /\ inserciones' = S.n
    /\ llamada' = S.ll

\* the state dict of a dialog step, before its timestamp is set; a key the dict lacks
\* reads as state.get(key, "") or state.get("monto", 0) does
Estado(step, tipo, categoria, monto) ==
    [step |-> step, tipo |-> tipo, categoria |-> categoria, monto |-> monto,
     nombre |-> "", descripcion |-> "", timestamp |-> 0]

\* the four calls of the store, as the handlers and the scheduler make them
SetUserState(user_id, step) ==
    /\ Deja(handlers_set_user_state(Almacen, user_id, Estado(step, "gasto", "Comida", 0)))
    /\ UNCHANGED <<hoy, now, ticks, usuarios, categorias, movimientos, suscripciones,
                   alertas, resumen_mensual, balance_diario, notificaciones, seq,
                   pendientes, cobros, update,
                   recordatorios, enviados, error, pool, planificador,
                   deudas, fallidos, procesos>>

GetUserState(user_id) ==
    /\ Deja(get_user_state(Almacen, user_id))
    /\ UNCHANGED <<hoy, now, ticks, usuarios, categorias, movimientos, suscripciones,
                   alertas, resumen_mensual, balance_diario, notificaciones, seq,
                   pendientes, cobros, update,
                   recordatorios, enviados, error, pool, planificador,
                   deudas, fallidos, procesos>>

ClearUserState(user_id) ==
    /\ Deja(clear_user_state(Almacen, user_id))
    /\ UNCHANGED <<hoy, now, ticks, usuarios, categorias, movimientos, suscripciones,
                   alertas, resumen_mensual, balance_diario, notificaciones, seq,
                   pendientes, cobros, update,
                   recordatorios, enviados, error, pool, planificador,
                   deudas, fallidos, procesos>>

\* the scheduler's _limpiar_estados_usuario
LimpiarEstadosUsuario ==
    /\ Deja(cleanup_old_states(Almacen))
    /\ UNCHANGED <<hoy, now, ticks, usuarios, categorias, movimientos, suscripciones,
                   alertas, resumen_mensual, balance_diario, notificaciones, seq,
                   pendientes, cobros, update,
                   recordatorios, enviados, error, pool, planificador,
                   deudas, fallidos, procesos>>

\* time.time() moves on
PasaElTiempo(dt) ==
    /\ ticks < MaxTicks
    /\ ticks' = ticks + 1
    /\ now' = now + dt
    /\ UNCHANGED <<hoy, usuarios, categorias, movimientos, suscripciones, alertas,
                   resumen_mensual, balance_diario, notificaciones, seq, user_states,
                   inserciones, llamada, pendientes, cobros, update,
                   recordatorios, enviados, error, pool, planificador,
                   deudas, fallidos, procesos>>

\* ------------------------------------------------------------ the state store under threads
\* The scheduler's thread and the handler threads of the threaded TeleBot call the
\* store with no lock between them: a thread can be switched out between any two
\* operations on the dict.
Manejadores == {1, 2}

SinBarrido == [pc |-> "none", tam |-> 0, ultimo |-> 0, to_remove |-> <<>>,
               current_time |-> 0]

SinPuesta == [pc |-> "none", user_id |-> 0, state |-> Estado("", "", "", 0)]

\* the entries the iterator of self.user_states.items() has not reached yet
PorVisitar(store, ultimo) == {i \in 1..Len(store) : store[i].ins > ultimo}

\* cleanup_old_states: current_time = time.time(), and the iterator is created; it
\* remembers the size of the dict
BarridoEmpieza ==
    /\ barrido.pc = "none"
    /\ barrido' = [pc |-> "iter", tam |-> Len(user_states), ultimo |-> 0,
                   to_remove |-> <<>>, current_time |-> now]
    /\ UNCHANGED <<hoy, now, ticks, usuarios, categorias, movimientos, suscripciones,
                   alertas, resumen_mensual, balance_diario, notificaciones, seq,
                   user_states, inserciones, llamada, pendientes, cobros, update,
                   recordatorios, enviados, error, pool, planificador,
                   deudas, fallidos, puestas, bot, lectura>>

\* one turn of the for loop: the iterator raises RuntimeError when the dict has another
\* size than it remembers, else it yields the next entry in insertion order or ends;
\* the exception leaves cleanup_old_states and _limpiar_estados_usuario logs it
BarridoSiguiente ==
    /\ barrido.pc = "iter"
    /\ IF Len(user_states) # barrido.tam
       THEN /\ barrido' = SinBarrido
            /\ error' = [op |-> "limpiar_estados_usuario", paso |-> "RuntimeError"]
       ELSE /\ UNCHANGED error
            /\ IF PorVisitar(user_states, barrido.ultimo) = {}
               THEN barrido' = [barrido EXCEPT !.pc = "del"]
               ELSE LET i == CHOOSE j \in PorVisitar(user_states, barrido.ultimo) :
                                \A k \in PorVisitar(user_states, barrido.ultimo) :
                                   user_states[j].ins <= user_states[k].ins
                        e == user_states[i]
                    IN barrido' =
                         [barrido EXCEPT
                            !.ultimo = e.ins,
                            !.to_remove =
                               IF Expirado(barrido.current_time, e.state.timestamp)
                               THEN Append(barrido.to_remove, e.user_id)
                               ELSE barrido.to_remove]
    /\ UNCHANGED <<hoy, now, ticks, usuarios, categorias, movimientos, suscripciones,
                   alertas, resumen_mensual, balance_diario, notificaciones, seq,
                   user_states, inserciones, llamada, pendientes, cobros, update,
                   recordatorios, enviados, pool, planificador,
                   deudas, fallidos, puestas, bot, lectura>>

\* for user_id in to_remove: del self.user_states[user_id], which raises KeyError
\* when the key is no longer there
BarridoBorra ==
    /\ barrido.pc = "del"
    /\ IF barrido.to_remove = <<>>
       THEN /\ barrido' = SinBarrido
            /\ UNCHANGED <<user_states, error>>
       ELSE IF Head(barrido.to_remove) \notin Claves(user_states)
       THEN /\ barrido' = SinBarrido
            /\ error' = [op |-> "limpiar_estados_usuario", paso |-> "KeyError"]
            /\ UNCHANGED user_states
       ELSE /\ user_states' = SelectSeq(user_states,
                                LAMBDA e : e.user_id # Head(barrido.to_remove))
            /\ barrido' = [barrido EXCEPT !.to_remove = Tail(barrido.to_remove)]
            /\ UNCHANGED error
    /\ UNCHANGED <<hoy, now, ticks, usuarios, categorias, movimientos, suscripciones,
                   alertas, resumen_mensual, balance_diario, notificaciones, seq,
                   inserciones, llamada, pendientes, cobros, update,
                   recordatorios, enviados, pool, planificador,
                   deudas, fallidos, puestas, bot, lectura>>

\* set_user_state up to the assignment: if len(self.user_states) >= MAX_USER_STATES,
\* the oldest key is deleted
PuestaHaceLugar(h, user_id, step) ==
    /\ puestas[h].pc = "none"
    /\ puestas' = [puestas EXCEPT ![h] =
                     [pc |-> "assign", user_id |-> user_id,
                      state |-> [Estado(step, "gasto", "Comida", 0)
                                   EXCEPT !.timestamp = now]]]
    /\ user_states' = IF Len(user_states) >= MAX_USER_STATES
                      THEN SinElMasAntiguo(user_states) ELSE user_states
    /\ UNCHANGED <<hoy, now, ticks, usuarios, categorias, movimientos, suscripciones,
                   alertas, resumen_mensual, balance_diario, notificaciones, seq,
                   inserciones, llamada, pendientes, cobros, update,
                   recordatorios, enviados, error, pool, planificador,
                   deudas, fallidos, barrido, bot, lectura>>

\* self.user_states[user_id] = state
PuestaAsigna(h) ==
    /\ puestas[h].pc = "assign"
    /\ inserciones < MaxInserciones \/ puestas[h].user_id \in Claves(user_states)
    /\ user_states' = Asignar(user_states, puestas[h].user_id, puestas[h].state,
                              inserciones + 1)
    /\ inserciones' = IF puestas[h].user_id \in Claves(user_states)
                      THEN inserciones ELSE inserciones + 1
    /\ llamada' = [op |-> "set", user_id |-> puestas[h].user_id, res |-> {}, log |-> {}]
    /\ puestas' = [puestas EXCEPT ![h] = SinPuesta]
    /\ UNCHANGED <<hoy, now, ticks, usuarios, categorias, movimientos, suscripciones,
                   alertas, resumen_mensual, balance_diario, notificaciones, seq,
                   pendientes, cobros, update,
                   recordatorios, enviados, error, pool, planificador,
                   deudas, fallidos, barrido, bot, lectura>>

\* ------------------------------------------------------------ usuarios y categorias
usuario_existe(user_id) == user_id \in DOMAIN usuarios

usuario_configurado(user_id) == user_id \in DOMAIN usuarios /\ usuarios[user_id].configurado

\* UPDATE usuarios SET configurado = 1 WHERE user_id = ?
marcar_usuario_configurado(tabla, user_id) ==
    IF user_id \in DOMAIN tabla THEN [tabla EXCEPT ![user_id].configurado = TRUE] ELSE tabla

\* INSERT OR IGNORE INTO categorias (nombre, tipo, user_id)
agregar_categoria(tabla, nombre, tipo, user_id) ==
    IF tipo \notin MOVEMENT_TYPES
       \/ \E c \in tabla : c.nombre = nombre /\ c.tipo = tipo /\ c.user_id = user_id
    THEN tabla
    ELSE tabla \cup {[nombre |-> nombre, tipo |-> tipo, activa |-> TRUE, user_id |-> user_id]}

\* SELECT nombre ... WHERE user_id = ? AND tipo = ? AND activa = 1 ORDER BY nombre
obtener_categorias(tipo, user_id) ==
    {c.nombre : c \in {x \in categorias : x.user_id = user_id /\ x.tipo = tipo /\ x.activa}}

\* the text collation of the category names used here: SQLite compares them byte by
\* byte, so digits come before capitals and capitals before small letters
NombresEnOrden ==
    <<"-4", "20/03/2024", "Ana", "Comida", "Entretenimiento", "Otros", "Servicios",
      "Transporte", "no">>

OrdenNombre ==
    [n \in {NombresEnOrden[i] : i \in DOMAIN NombresEnOrden} |->
        CHOOSE i \in DOMAIN NombresEnOrden : NombresEnOrden[i] = n]

Ultima(nombres) == CHOOSE n \in nombres : \A o \in nombres : OrdenNombre[n] >= OrdenNombre[o]

Primera(nombres) == CHOOSE n \in nombres : \A o \in nombres : OrdenNombre[n] <= OrdenNombre[o]

\* ------------------------------------------------------------ chat handlers
TodosAutorizados(user_id) == TRUE

\* return user_id == self.config.AUTHORIZED_USER_ID
AutorizadoSiTieneId(user_id) == user_id > 0

is_authorized(user_id) == user_id = AUTHORIZED_USER_ID

\* float(cleaned) of the message texts used here; -1 where the pattern ^\d+\.?\d*$ fails
Numero(text) ==
    CASE text = "0" -> 0
      [] text = "4" -> 4
      [] text = "10" -> 10
      [] OTHER -> -1

is_valid_amount(text, allow_zero) ==
    /\ Numero(text) >= 0
    /\ IF allow_zero THEN Numero(text) <= MAX_AMOUNT
       ELSE MIN_AMOUNT <= Numero(text) /\ Numero(text) <= MAX_AMOUNT

SKIP_DESCRIPTION_KEYWORDS == {"no", "skip", "omitir", "sin descripcion"}

\* the inbound update: which handler it is routed to and who sent it
Evento(kind, from_id) == [kind |-> kind, from_id |-> from_id]

\* /start
handle_start(from_id) ==
    /\ update' = Evento("start", from_id)
    /\ IF ~is_authorized(from_id)
       THEN UNCHANGED <<usuarios, user_states, inserciones, llamada>>
       ELSE LET S1 == clear_user_state(Almacen, from_id)
                pide == Estado("balance_inicial", "", "", 0)
            IN IF ~usuario_existe(from_id)
               THEN /\ usuarios' = Put(usuarios, from_id,
                                       [balance_inicial |-> 0, configurado |-> FALSE])
                    /\ Deja(handlers_set_user_state(S1, from_id, pide))
               ELSE IF ~usuario_configurado(from_id)
               THEN /\ UNCHANGED usuarios
                    /\ Deja(handlers_set_user_state(S1, from_id, pide))
               ELSE /\ UNCHANGED usuarios
                    /\ Deja(S1)
    /\ UNCHANGED <<hoy, now, ticks, categorias, movimientos, suscripciones, alertas,
                   resumen_mensual, balance_diario, notificaciones, seq, pendientes,
                   cobros,
                   recordatorios, enviados, error, pool, planificador,
                   deudas, fallidos, procesos>>

\* /balance, /resumen and /backup read the ledger and reply; /ayuda replies to anyone
handle_balance(from_id) ==
    /\ update' = Evento("balance", from_id)
    /\ UNCHANGED <<hoy, now, ticks, usuarios, categorias, movimientos, suscripciones,
                   alertas, resumen_mensual, balance_diario, notificaciones, seq,
                   user_states, inserciones, llamada, pendientes, cobros,
                   recordatorios, enviados, error, pool, planificador,
                   deudas, fallidos, procesos>>

handle_resumen(from_id) ==
    /\ update' = Evento("resumen", from_id)
    /\ UNCHANGED <<hoy, now, ticks, usuarios, categorias, movimientos, suscripciones,
                   alertas, resumen_mensual, balance_diario, notificaciones, seq,
                   user_states, inserciones, llamada, pendientes, cobros,
                   recordatorios, enviados, error, pool, planificador,
                   deudas, fallidos, procesos>>

handle_backup(from_id) ==
    /\ update' = Evento("backup", from_id)
    /\ UNCHANGED <<hoy, now, ticks, usuarios, categorias, movimientos, suscripciones,
                   alertas, resumen_mensual, balance_diario, notificaciones, seq,
                   user_states, inserciones, llamada, pendientes, cobros,
                   recordatorios, enviados, error, pool, planificador,
                   deudas, fallidos, procesos>>

handle_ayuda(from_id) ==
    /\ update' = Evento("ayuda", from_id)
    /\ UNCHANGED <<hoy, now, ticks, usuarios, categorias, movimientos, suscripciones,
                   alertas, resumen_mensual, balance_diario, notificaciones, seq,
                   user_states, inserciones, llamada, pendientes, cobros,
                   recordatorios, enviados, error, pool, planificador,
                   deudas, fallidos, procesos>>

\* _procesar_comando_rapido: "<monto>" after /gasto or /ingreso
comando_rapido(from_id, texto, tipo) ==
    IF ~is_authorized(from_id) \/ texto = "" \/ ~is_valid_amount(texto, FALSE)
    THEN UNCHANGED <<categorias, movimientos, resumen_mensual, balance_diario,
                     notificaciones, seq>>
    ELSE LET existentes == obtener_categorias(tipo, from_id)
             categoria == IF existentes = {} THEN "Otros" ELSE Primera(existentes)
         IN /\ categorias' = IF existentes = {}
                             THEN agregar_categoria(categorias, "Otros", tipo, from_id)
                             ELSE categorias
            /\ agregar_movimiento(from_id, tipo, categoria, Numero(texto), "")

handle_gasto_rapido(from_id, texto) ==
    /\ update' = Evento("gasto", from_id)
    /\ comando_rapido(from_id, texto, "gasto")
    /\ UNCHANGED <<hoy, now, ticks, usuarios, suscripciones, alertas, user_states,
                   inserciones, llamada, pendientes, cobros,
                   recordatorios, enviados, error, pool, planificador,
                   deudas, fallidos, procesos>>

handle_ingreso_rapido(from_id, texto) ==
    /\ update' = Evento("ingreso", from_id)
    /\ comando_rapido(from_id, texto, "ingreso")
    /\ UNCHANGED <<hoy, now, ticks, usuarios, suscripciones, alertas, user_states,
                   inserciones, llamada, pendientes, cobros,
                   recordatorios, enviados, error, pool, planificador,
                   deudas, fallidos, procesos>>

\* ------------------------------------------------------------ what a text means at a step
\* int(text) of the message texts used here; -1 where int() raises ValueError
Entero(text) ==
    CASE text = "4" -> 4
      [] text = "31" -> 31
      [] OTHER -> -1

\* InputValidator.parse_date of the message texts used here: the date, or None
parse_date(text) ==
    CASE text = "20/03/2024" -> {date(2024, 3, 20)}
      [] text = "01/04/2024" -> {date(2024, 4, 1)}
      [] OTHER -> {}

\* text.replace("-", ""), which _process_debt_amount applies before validating
sin_signo(text) == IF text = "-4" THEN "4" ELSE text

is_valid_category_name(name) == 2 <= Len(name) /\ Len(name) <= MAX_CATEGORY_NAME_LENGTH

is_valid_subscription_name(name) ==
    2 <= Len(name) /\ Len(name) <= MAX_SUBSCRIPTION_NAME_LENGTH

is_valid_description(description) ==
    2 <= Len(description) /\ Len(description) <= MAX_DESCRIPTION_LENGTH

\* the categories _start_add_movement and _process_subscription_amount create for a
\* principal that has none of the kind
categorias_basicas(tipo) ==
    CASE tipo = "ingreso" -> {"Salario", "Freelance", "Otros"}
      [] tipo = "gasto" -> {"Comida", "Transporte", "Otros"}
      [] tipo = "suscripcion" -> {"Servicios", "Entretenimiento", "Otros"}
      [] OTHER -> {"Ahorro General", "Inversión", "Emergencia"}

crear_categorias_basicas(tabla, nombres, tipo, user_id) ==
    IF {c \in tabla : c.user_id = user_id /\ c.tipo = tipo /\ c.activa} # {}
    THEN tabla
    ELSE tabla \cup
         {[nombre |-> n, tipo |-> tipo, activa |-> TRUE, user_id |-> user_id] :
            n \in {x \in nombres :
                     ~\E c \in tabla : c.nombre = x /\ c.tipo = tipo /\ c.user_id = user_id}}

\* ------------------------------------------------------------ the steps of the dialogs
\* each step of handle_text_input, given the state found and the store after the get;
\* envia tells whether bot.send_message and bot.reply_to return or raise, for the
\* steps that still have a call of the store to make after the message
ConfiguraSinValidar(from_id, text, S) ==
    /\ IF usuario_existe(from_id)
       THEN /\ usuarios' = marcar_usuario_configurado(
                               IF is_valid_amount(text, TRUE)
                               THEN [usuarios EXCEPT ![from_id].balance_inicial = Numero(text)]
                               ELSE usuarios,
                               from_id)
            /\ Deja(clear_user_state(S, from_id))
       ELSE /\ UNCHANGED usuarios
            /\ Deja(S)
    /\ UNCHANGED <<categorias, movimientos, suscripciones, alertas, resumen_mensual,
                   balance_diario, notificaciones, seq, recordatorios, deudas, error>>

process_initial_balance(from_id, text, S) ==
    /\ IF is_valid_amount(text, TRUE) /\ usuario_existe(from_id)
       THEN /\ usuarios' = marcar_usuario_configurado(
                               [usuarios EXCEPT ![from_id].balance_inicial = Numero(text)],
                               from_id)
            /\ Deja(clear_user_state(S, from_id))
       ELSE /\ UNCHANGED usuarios
            /\ Deja(S)
    /\ UNCHANGED <<categorias, movimientos, suscripciones, alertas, resumen_mensual,
                   balance_diario, notificaciones, seq, recordatorios, deudas, error>>

process_new_category(from_id, text, state, S) ==
    LET tipo == CHOOSE t \in MOVEMENT_TYPES : state.step = "nueva_categoria_" \o t
        nueva == agregar_categoria(categorias, text, tipo, from_id)
    IN /\ IF ~is_valid_category_name(text) \/ nueva = categorias
          THEN /\ UNCHANGED categorias
               /\ Deja(S)
          ELSE /\ categorias' = nueva
               /\ Deja(handlers_set_user_state(clear_user_state(S, from_id), from_id,
                          Estado("monto_" \o tipo, tipo, text, 0)))
       /\ UNCHANGED <<usuarios, movimientos, suscripciones, alertas, resumen_mensual,
                      balance_diario, notificaciones, seq, recordatorios, deudas, error>>

SinValidarMonto(from_id, text, state, S) ==
    /\ Deja(handlers_set_user_state(S, from_id,
                [state EXCEPT !.monto = Numero(text), !.step = "descripcion_movimiento"]))
    /\ UNCHANGED <<usuarios, categorias, movimientos, suscripciones, alertas,
                   resumen_mensual, balance_diario, notificaciones, seq, recordatorios,
                   deudas, error>>

process_amount_input(from_id, text, state, S) ==
    /\ IF is_valid_amount(text, FALSE)
       THEN Deja(handlers_set_user_state(S, from_id,
                   [state EXCEPT !.monto = Numero(text), !.step = "descripcion_movimiento"]))
       ELSE Deja(S)
    /\ UNCHANGED <<usuarios, categorias, movimientos, suscripciones, alertas,
                   resumen_mensual, balance_diario, notificaciones, seq, recordatorios,
                   deudas, error>>

process_movement_description(from_id, text, state, S) ==
    LET descripcion == IF text \in SKIP_DESCRIPTION_KEYWORDS THEN "" ELSE text
    IN /\ IF state.tipo = "" \/ state.categoria = "" \/ state.monto = 0
          THEN UNCHANGED <<movimientos, resumen_mensual, balance_diario, notificaciones, seq>>
          ELSE agregar_movimiento(from_id, state.tipo, state.categoria, state.monto,
                                  descripcion)
       /\ Deja(clear_user_state(S, from_id))
       /\ UNCHANGED <<usuarios, categorias, suscripciones, alertas, recordatorios, deudas,
                      error>>

process_new_initial_balance(from_id, text, S) ==
    /\ IF is_valid_amount(text, TRUE) /\ usuario_existe(from_id)
       THEN /\ usuarios' = [usuarios EXCEPT ![from_id].balance_inicial = Numero(text)]
            /\ Deja(clear_user_state(S, from_id))
       ELSE /\ UNCHANGED usuarios
            /\ Deja(S)
    /\ UNCHANGED <<categorias, movimientos, suscripciones, alertas, resumen_mensual,
                   balance_diario, notificaciones, seq, recordatorios, deudas, error>>

process_subscription_name(from_id, text, state, S) ==
    /\ IF is_valid_subscription_name(text)
       THEN Deja(handlers_set_user_state(S, from_id,
                   [state EXCEPT !.nombre = text, !.step = "suscripcion_monto"]))
       ELSE Deja(S)
    /\ UNCHANGED <<usuarios, categorias, movimientos, suscripciones, alertas,
                   resumen_mensual, balance_diario, notificaciones, seq, recordatorios,
                   deudas, error>>

process_subscription_amount(from_id, text, state, S) ==
    /\ IF is_valid_amount(text, FALSE)
       THEN /\ Deja(handlers_set_user_state(S, from_id,
                      [state EXCEPT !.monto = Numero(text),
                                    !.step = "suscripcion_categoria"]))
            /\ categorias' = crear_categorias_basicas(
                                 categorias, categorias_basicas("suscripcion"), "gasto",
                                 from_id)
       ELSE /\ Deja(S)
            /\ UNCHANGED categorias
    /\ UNCHANGED <<usuarios, movimientos, suscripciones, alertas, resumen_mensual,
                   balance_diario, notificaciones, seq, recordatorios, deudas, error>>

process_subscription_day(from_id, text, state, S, envia) ==
    LET dia == Entero(text)
    IN /\ IF ~(1 <= dia /\ dia <= 31)
          THEN /\ Deja(S)
               /\ UNCHANGED <<suscripciones, seq, error>>
          ELSE IF state.nombre = "" \/ state.monto = 0 \/ state.categoria = ""
          THEN /\ Deja(clear_user_state(S, from_id))
               /\ UNCHANGED <<suscripciones, seq, error>>
          ELSE /\ agregar_suscripcion(from_id, state.nombre, state.monto, state.categoria,
                                      dia)
               /\ Deja(IF envia THEN clear_user_state(S, from_id) ELSE S)
       /\ UNCHANGED <<usuarios, categorias, movimientos, alertas, resumen_mensual,
                      balance_diario, notificaciones, recordatorios, deudas>>

process_reminder_description(from_id, text, state, S) ==
    /\ IF is_valid_description(text)
       THEN Deja(handlers_set_user_state(S, from_id,
                   [state EXCEPT !.descripcion = text, !.step = "recordatorio_fecha"]))
       ELSE Deja(S)
    /\ UNCHANGED <<usuarios, categorias, movimientos, suscripciones, alertas,
                   resumen_mensual, balance_diario, notificaciones, seq, recordatorios,
                   deudas, error>>

SinReintento(from_id, text, state, S, envia) ==
    LET fecha == parse_date(text)
    IN /\ IF fecha = {} \/ state.descripcion = ""
          THEN /\ Deja(clear_user_state(S, from_id))
               /\ UNCHANGED <<recordatorios, seq>>
          ELSE /\ agregar_recordatorio(from_id, state.descripcion,
                                       CHOOSE f \in fecha : TRUE)
               /\ Deja(IF envia THEN clear_user_state(S, from_id) ELSE S)
       /\ UNCHANGED <<usuarios, categorias, movimientos, suscripciones, alertas,
                      resumen_mensual, balance_diario, notificaciones, deudas, error>>

process_reminder_date(from_id, text, state, S, envia) ==
    LET fecha == parse_date(text)
    IN /\ IF fecha = {}
          THEN /\ Deja(S)
               /\ UNCHANGED <<recordatorios, seq>>
          ELSE IF state.descripcion = ""
          THEN /\ Deja(clear_user_state(S, from_id))
               /\ UNCHANGED <<recordatorios, seq>>
          ELSE /\ agregar_recordatorio(from_id, state.descripcion,
                                       CHOOSE f \in fecha : TRUE)
               /\ Deja(IF envia THEN clear_user_state(S, from_id) ELSE S)
       /\ UNCHANGED <<usuarios, categorias, movimientos, suscripciones, alertas,
                      resumen_mensual, balance_diario, notificaciones, deudas, error>>

process_debt_name(from_id, text, state, S) ==
    /\ IF Len(text) < 2 \/ nombre_deuda_muy_largo(text)
       THEN Deja(S)
       ELSE Deja(handlers_set_user_state(S, from_id,
                   [state EXCEPT !.nombre = text, !.step = "deuda_tipo"]))
    /\ UNCHANGED <<usuarios, categorias, movimientos, suscripciones, alertas,
                   resumen_mensual, balance_diario, notificaciones, seq, recordatorios,
                   deudas, error>>

process_debt_amount(from_id, text, state, S, envia) ==
    LET monto_str == sin_signo(text)
    IN /\ IF ~is_valid_amount(monto_str, FALSE)
          THEN /\ Deja(S)
               /\ UNCHANGED <<deudas, seq>>
          ELSE IF state.nombre = "" \/ state.tipo = ""
          THEN /\ Deja(clear_user_state(S, from_id))
               /\ UNCHANGED <<deudas, seq>>
          ELSE /\ agregar_deuda(from_id, state.nombre, Numero(monto_str), state.tipo)
               /\ Deja(IF envia THEN clear_user_state(S, from_id) ELSE S)
       /\ UNCHANGED <<usuarios, categorias, movimientos, suscripciones, alertas,
                      resumen_mensual, balance_diario, notificaciones, recordatorios,
                      error>>

process_alert_amount(from_id, text, state, S, envia) ==
    /\ IF ~is_valid_amount(text, FALSE)
       THEN /\ UNCHANGED <<alertas, seq>>
            /\ Deja(S)
       ELSE /\ agregar_alerta(from_id, state.tipo, Numero(text))
            /\ Deja(IF envia THEN clear_user_state(S, from_id) ELSE S)
    /\ UNCHANGED <<usuarios, categorias, movimientos, suscripciones, resumen_mensual,
                   balance_diario, notificaciones, recordatorios, deudas, error>>

\* a text that no step takes: _send_help_message
send_help_message(S) ==
    /\ Deja(S)
    /\ UNCHANGED <<usuarios, categorias, movimientos, suscripciones, alertas,
                   resumen_mensual, balance_diario, notificaciones, seq, recordatorios,
                   deudas, error>>

texto_recibido(from_id, text, envia) ==
    /\ update' = Evento("text", from_id)
    /\ IF ~is_authorized(from_id)
       THEN UNCHANGED <<usuarios, categorias, movimientos, suscripciones, alertas,
                        resumen_mensual, balance_diario, notificaciones, seq,
                        recordatorios, deudas, error, user_states, inserciones, llamada>>
       ELSE LET S == get_user_state(Almacen, from_id)
                found == S.ll.res
                state == CHOOSE x \in found : TRUE
            IN IF found = {}
               THEN send_help_message(S)
               ELSE IF state.step = "balance_inicial"
               THEN process_initial_balance(from_id, text, S)
               ELSE IF state.step \in {"nueva_categoria_" \o t : t \in MOVEMENT_TYPES}
               THEN process_new_category(from_id, text, state, S)
               ELSE IF state.step \in {"monto_ingreso", "monto_gasto", "monto_ahorro"}
               THEN process_amount_input(from_id, text, state, S)
               ELSE IF state.step = "descripcion_movimiento"
               THEN process_movement_description(from_id, text, state, S)
               ELSE IF state.step = "config_nuevo_balance"
               THEN process_new_initial_balance(from_id, text, S)
               ELSE IF state.step = "suscripcion_nombre"
               THEN process_subscription_name(from_id, text, state, S)
               ELSE IF state.step = "suscripcion_monto"
               THEN process_subscription_amount(from_id, text, state, S)
               ELSE IF state.step = "suscripcion_dia"
               THEN process_subscription_day(from_id, text, state, S, envia)
               ELSE IF state.step = "recordatorio_descripcion"
               THEN process_reminder_description(from_id, text, state, S)
               ELSE IF state.step = "recordatorio_fecha"
               THEN process_reminder_date(from_id, text, state, S, envia)
               ELSE IF state.step = "deuda_nombre"
               THEN process_debt_name(from_id, text, state, S)
               ELSE IF state.step = "deuda_monto"
               THEN process_debt_amount(from_id, text, state, S, envia)
               ELSE IF state.step = "alerta_monto"
               THEN process_alert_amount(from_id, text, state, S, envia)
               ELSE send_help_message(S)
    /\ UNCHANGED <<hoy, now, ticks, pendientes, cobros, enviados, pool, planificador,
                   fallidos, procesos>>

\* the handler when the transport takes every message it is given
handle_text_input(from_id, text) == texto_recibido(from_id, text, TRUE)

\* the handler when bot.send_message and bot.reply_to raise
handle_text_input_con_falla(from_id, text) == texto_recibido(from_id, text, FALSE)

\* call.data of the buttons pressed here, split the way the dispatcher splits it
Boton(data) ==
    CASE data = "select_cat_gasto_Comida" ->
           [accion |-> "select_cat", tipo |-> "gasto", categoria |-> "Comida"]
      [] data = "select_cat_ahorro_Comida" ->
           [accion |-> "select_cat", tipo |-> "ahorro", categoria |-> "Comida"]
      [] data = "nueva_categoria_gasto" ->
           [accion |-> "nueva_categoria", tipo |-> "gasto", categoria |-> ""]
      [] data = "suscripcion_cat_Comida" ->
           [accion |-> "suscripcion_cat", tipo |-> "", categoria |-> "Comida"]
      [] data = "deuda_tipo_positiva" ->
           [accion |-> "deuda_tipo", tipo |-> "positiva", categoria |-> ""]
      [] data = "deuda_tipo_negativa" ->
           [accion |-> "deuda_tipo", tipo |-> "negativa", categoria |-> ""]
      [] data = "alerta_tipo_diario" ->
           [accion |-> "alerta_tipo", tipo |-> "diario", categoria |-> ""]
      [] data = "alerta_tipo_semanal" ->
           [accion |-> "alerta_tipo", tipo |-> "semanal", categoria |-> ""]
      [] data = "agregar_gasto" ->
           [accion |-> "agregar_movimiento", tipo |-> "gasto", categoria |-> ""]
      [] data = "agregar_suscripcion" ->
           [accion |-> "agregar", tipo |-> "suscripcion_nombre", categoria |-> ""]
      [] data = "agregar_recordatorio" ->
           [accion |-> "agregar", tipo |-> "recordatorio_descripcion", categoria |-> ""]
      [] data = "agregar_deuda" ->
           [accion |-> "agregar", tipo |-> "deuda_nombre", categoria |-> ""]
      [] data = "config_balance_inicial" ->
           [accion |-> "agregar", tipo |-> "config_nuevo_balance", categoria |-> ""]
      [] OTHER -> [accion |-> "back_to_menu", tipo |-> "", categoria |-> ""]

\* _process_subscription_category: only a state waiting for the category takes it
process_subscription_category(from_id, categoria) ==
    LET S == get_user_state(Almacen, from_id)
        found == S.ll.res
        state == CHOOSE x \in found : TRUE
    IN IF found = {} \/ state.step # "suscripcion_categoria"
       THEN Deja(S)
       ELSE Deja(handlers_set_user_state(S, from_id,
                   [state EXCEPT !.categoria = categoria, !.step = "suscripcion_dia"]))

\* _process_debt_type_selection: a state still at deuda_nombre is kept and updated;
\* any other, or none, is replaced by a new dict that has the type alone
process_debt_type_selection(from_id, tipo) ==
    LET S == get_user_state(Almacen, from_id)
        found == S.ll.res
        state == CHOOSE x \in found : TRUE
    IN IF found = {} \/ state.step # "deuda_nombre"
       THEN Deja(handlers_set_user_state(S, from_id, Estado("deuda_monto", tipo, "", 0)))
       ELSE Deja(handlers_set_user_state(S, from_id,
                   [state EXCEPT !.tipo = tipo, !.step = "deuda_monto"]))

handle_callback_query(from_id, data) ==
    LET b == Boton(data)
    IN /\ update' = Evento("callback", from_id)
       /\ IF ~is_authorized(from_id)
          THEN UNCHANGED <<categorias, user_states, inserciones, llamada>>
          ELSE IF b.accion = "nueva_categoria"
          THEN /\ Deja(handlers_set_user_state(Almacen, from_id,
                         Estado("nueva_categoria_" \o b.tipo, "", "", 0)))
               /\ UNCHANGED categorias
          ELSE IF b.accion = "select_cat"
          THEN /\ Deja(handlers_set_user_state(Almacen, from_id,
                         Estado("monto_" \o b.tipo, b.tipo, b.categoria, 0)))
               /\ UNCHANGED categorias
          ELSE IF b.accion = "suscripcion_cat"
          THEN /\ process_subscription_category(from_id, b.categoria)
               /\ UNCHANGED categorias
          ELSE IF b.accion = "deuda_tipo"
          THEN /\ process_debt_type_selection(from_id, b.tipo)
               /\ UNCHANGED categorias
          ELSE IF b.accion = "alerta_tipo"
          THEN /\ Deja(handlers_set_user_state(Almacen, from_id,
                         Estado("alerta_monto", b.tipo, "", 0)))
               /\ UNCHANGED categorias
          ELSE IF b.accion = "agregar_movimiento"
          THEN /\ categorias' = crear_categorias_basicas(
                                    categorias, categorias_basicas(b.tipo), b.tipo, from_id)
               /\ UNCHANGED <<user_states, inserciones, llamada>>
          ELSE IF b.accion = "agregar"
          THEN /\ Deja(handlers_set_user_state(Almacen, from_id,
                         Estado(b.tipo, "", "", 0)))
               /\ UNCHANGED categorias
          ELSE UNCHANGED <<categorias, user_states, inserciones, llamada>>
       /\ UNCHANGED <<hoy, now, ticks, usuarios, movimientos, suscripciones,
                      alertas, resumen_mensual, balance_diario, notificaciones, seq,
                      pendientes, cobros,
                      recordatorios, enviados, error, pool, planificador,
                      deudas, fallidos, procesos>>

\* ------------------------------------------------------------ connection pool
\* if len(self._connections) < self.max_connections
SiempreHayLugar(n) == TRUE

HayLugar(n) == n < MAX_CONNECTIONS

\* get_connection up to the yield: under the lock, pop a retained connection or open one
Entrar(t) ==
    /\ hilos[t] = "fuera"
    /\ hilos' = [hilos EXCEPT ![t] = "dentro"]
    /\ conexiones' = IF conexiones > 0 THEN conexiones - 1 ELSE conexiones
    /\ UNCHANGED <<hoy, now, ticks, usuarios, categorias, movimientos, suscripciones,
                   alertas, resumen_mensual, balance_diario, notificaciones, seq,
                   user_states, inserciones, llamada, pendientes, cobros, update,
                   recordatorios, enviados, error, ultima, planificador,
                   deudas, fallidos, procesos>>

\* the body of the scope raises: except Exception: conn.rollback(); raise e
Fallar(t) ==
    /\ hilos[t] = "dentro"
    /\ hilos' = [hilos EXCEPT ![t] = "rollback"]
    /\ UNCHANGED <<hoy, now, ticks, usuarios, categorias, movimientos, suscripciones,
                   alertas, resumen_mensual, balance_diario, notificaciones, seq,
                   user_states, inserciones, llamada, pendientes, cobros, update,
                   recordatorios, enviados, error, conexiones, ultima, planificador,
                   deudas, fallidos, procesos>>

\* the finally block, after a normal exit and after the rollback alike: commit, then
\* under the lock append the connection if there is room, close it otherwise
Salir(t) ==
    /\ hilos[t] \in {"dentro", "rollback"}
    /\ hilos' = [hilos EXCEPT ![t] = "fuera"]
    /\ conexiones' = IF HayLugar(conexiones) THEN conexiones + 1 ELSE conexiones
    /\ ultima' = [con_error |-> hilos[t] = "rollback",
                  destino |-> IF HayLugar(conexiones) THEN "pool" ELSE "cerrada",
                  propagada |-> hilos[t] = "rollback"]
    /\ UNCHANGED <<hoy, now, ticks, usuarios, categorias, movimientos, suscripciones,
                   alertas, resumen_mensual, balance_diario, notificaciones, seq,
                   user_states, inserciones, llamada, pendientes, cobros, update,
                   recordatorios, enviados, error, planificador,
                   deudas, fallidos, procesos>>

\* close_all: every retained connection is popped and closed
close_all ==
    /\ conexiones' = 0
    /\ UNCHANGED <<hoy, now, ticks, usuarios, categorias, movimientos, suscripciones,
                   alertas, resumen_mensual, balance_diario, notificaciones, seq,
                   user_states, inserciones, llamada, pendientes, cobros, update,
                   recordatorios, enviados, error, hilos, ultima, planificador,
                   deudas, fallidos, procesos>>

\* ------------------------------------------------------------ scheduler worker
\* The jobs registered with schedule, by what they run.  Their effect on the ledger
\* and on the state store is VerificarSuscripciones, VerificarRecordatorios and
\* LimpiarEstadosUsuario; here a job is the span of its execution and how it ends.
Tareas == {"suscripciones", "recordatorios", "estados"}

Parado == [pc |-> "dead", due |-> {}, tarea |-> "none"]

\* self.scheduler_thread and self.scheduler_thread.is_alive()
NuncaVivo(w) == FALSE

is_alive(w) == w # 0 /\ workers[w].pc # "dead"

\* start(): nothing but a warning while the thread is alive; else a new worker
start ==
    /\ orden' = "start"
    /\ IF is_alive(scheduler_thread)
       THEN UNCHANGED <<running, scheduler_thread, workers>>
       ELSE /\ Len(workers) < MaxArranques
            /\ running' = TRUE
            /\ workers' = Append(workers, [pc |-> "loop", due |-> {}, tarea |-> "none"])
            /\ scheduler_thread' = Len(workers) + 1
    /\ UNCHANGED <<hoy, now, ticks, usuarios, categorias, movimientos, suscripciones,
                   alertas, resumen_mensual, balance_diario, notificaciones, seq,
                   user_states, inserciones, llamada, pendientes, cobros, update,
                   recordatorios, enviados, error, pool,
                   deudas, fallidos, procesos>>

\* stop(): the flag goes down; join(timeout=10) waits at most ten seconds for a
\* worker that sleeps sixty, and returns either way
stop ==
    /\ orden' = "stop"
    /\ running' = FALSE
    /\ UNCHANGED <<hoy, now, ticks, usuarios, categorias, movimientos, suscripciones,
                   alertas, resumen_mensual, balance_diario, notificaciones, seq,
                   user_states, inserciones, llamada, pendientes, cobros, update,
                   recordatorios, enviados, error, pool, scheduler_thread, workers,
                   deudas, fallidos, procesos>>

\* while self.running: the worker enters run_pending with the jobs due now, or ends
Despertar(w, D) ==
    /\ w \in 1..Len(workers)
    /\ workers[w].pc = "loop"
    /\ workers' = IF running
                  THEN [workers EXCEPT ![w] = [pc |-> "pending", due |-> D,
                                               tarea |-> "none"]]
                  ELSE [workers EXCEPT ![w] = Parado]
    /\ UNCHANGED <<hoy, now, ticks, usuarios, categorias, movimientos, suscripciones,
                   alertas, resumen_mensual, balance_diario, notificaciones, seq,
                   user_states, inserciones, llamada, pendientes, cobros, update,
                   recordatorios, enviados, error, pool, running, scheduler_thread,
                   orden,
                   deudas, fallidos, procesos>>

\* run_pending takes the next due job and calls it through _safe_run
EmpezarTarea(w, t) ==
    /\ w \in 1..Len(workers)
    /\ workers[w].pc = "pending"
    /\ t \in workers[w].due
    /\ workers' = [workers EXCEPT ![w].pc = "job", ![w].tarea = t]
    /\ UNCHANGED <<hoy, now, ticks, usuarios, categorias, movimientos, suscripciones,
                   alertas, resumen_mensual, balance_diario, notificaciones, seq,
                   user_states, inserciones, llamada, pendientes, cobros, update,
                   recordatorios, enviados, error, pool, running, scheduler_thread,
                   orden,
                   deudas, fallidos, procesos>>

\* _safe_run: what of the task's outcome reaches run_pending
SinCapturar(resultado) == resultado

safe_run(resultado) == "ok"

\* the job ends, returning or raising; an exception that got past _safe_run would
\* leave run_pending, be logged by the loop and skip the rest of this wake-up
TerminarTarea(w, resultado) ==
    /\ w \in 1..Len(workers)
    /\ workers[w].pc = "job"
    /\ workers' = IF safe_run(resultado) = "ok"
                  THEN [workers EXCEPT ![w].pc = "pending", ![w].tarea = "none",
                                       ![w].due = workers[w].due \ {workers[w].tarea}]
                  ELSE [workers EXCEPT ![w] = [pc |-> "sleep", due |-> {},
                                               tarea |-> "none"]]
    /\ error' = IF resultado = "ok" THEN error
                ELSE [op |-> "safe_run", paso |-> workers[w].tarea]
    /\ UNCHANGED <<hoy, now, ticks, usuarios, categorias, movimientos, suscripciones,
                   alertas, resumen_mensual, balance_diario, notificaciones, seq,
                   user_states, inserciones, llamada, pendientes, cobros, update,
                   recordatorios, enviados, pool, running, scheduler_thread, orden,
                   deudas, fallidos, procesos>>

\* run_pending returns; time.sleep(60), then back to the test of the loop
Dormir(w) ==
    /\ w \in 1..Len(workers)
    /\ \/ workers[w].pc = "pending" /\ workers[w].due = {}
          /\ workers' = [workers EXCEPT ![w].pc = "sleep"]
       \/ workers[w].pc = "sleep"
          /\ workers' = [workers EXCEPT ![w].pc = "loop"]
    /\ UNCHANGED <<hoy, now, ticks, usuarios, categorias, movimientos, suscripciones,
                   alertas, resumen_mensual, balance_diario, notificaciones, seq,
                   user_states, inserciones, llamada, pendientes, cobros, update,
                   recordatorios, enviados, error, pool, running, scheduler_thread,
                   orden,
                   deudas, fallidos, procesos>>

\* ------------------------------------------------------------ polling and shutdown
\* start_polling: max_retries and retry_delay; stop(): join(timeout=10)
max_retries == 3

retry_delay == 30

JOIN_TIMEOUT == 10

\* what the bot's life never touches
ajeno_al_bot == <<hoy, ticks, usuarios, categorias, movimientos, suscripciones, alertas,
                  resumen_mensual, balance_diario, notificaciones, seq, inserciones,
                  llamada, pendientes, cobros, update, recordatorios, enviados, error,
                  deudas, fallidos, barrido, puestas, lectura>>

\* start_polling: is_running goes up and the first polling attempt begins
start_polling ==
    /\ bot.pc = "none"
    /\ bot' = [bot EXCEPT !.is_running = TRUE, !.pc = "polling", !.poller = "polling"]
    /\ UNCHANGED <<ajeno_al_bot, now, user_states, pool, planificador>>

\* if "409" in error_msg or "conflict" in error_msg: if attempt < max_retries - 1
UnReintentoMas(e, attempt) == e = "409" /\ attempt < max_retries

reintenta(e, attempt) == e = "409" /\ attempt < max_retries - 1

\* infinity_polling raises e: a conflict is followed by time.sleep(retry_delay) and
\* continue while attempts are left; anything else, and the last conflict, is raised
\* to the outer except, which calls shutdown
PollingFalla(e) ==
    /\ bot.pc = "polling"
    /\ bot' = IF reintenta(e, bot.attempt)
              THEN [bot EXCEPT !.pc = "sleep", !.esperas = bot.esperas + 1]
              ELSE [bot EXCEPT !.pc = "shutdown", !.causa = e]
    /\ UNCHANGED <<ajeno_al_bot, now, user_states, pool, planificador>>

\* the back-off is over: the next turn of the for loop
Reintentar ==
    /\ bot.pc = "sleep"
    /\ now' = now + retry_delay
    /\ bot' = [bot EXCEPT !.pc = "polling", !.attempt = bot.attempt + 1]
    /\ UNCHANGED <<ajeno_al_bot, user_states, pool, planificador>>

\* except KeyboardInterrupt: self.shutdown(), and nothing is raised
Interrumpir ==
    /\ bot.pc = "polling"
    /\ bot' = [bot EXCEPT !.pc = "shutdown", !.causa = "interrupt"]
    /\ UNCHANGED <<ajeno_al_bot, now, user_states, pool, planificador>>

\* the order of the statements of shutdown
CierraAntesDeParar(paso) ==
    CASE paso = "shutdown" -> "stop_polling"
      [] paso = "stop_polling" -> "db_close"
      [] paso = "db_close" -> "scheduler_stop"
      [] paso = "scheduler_stop" -> "clear"
      [] OTHER -> "end"

PasoSiguiente(paso) ==
    CASE paso = "shutdown" -> "stop_polling"
      [] paso = "stop_polling" -> "scheduler_stop"
      [] paso = "scheduler_stop" -> "db_close"
      [] paso = "db_close" -> "clear"
      [] OTHER -> "end"

\* shutdown: self.is_running = False
Shutdown ==
    /\ bot.pc = "shutdown"
    /\ bot' = [bot EXCEPT !.is_running = FALSE, !.pc = PasoSiguiente("shutdown"),
                          !.invocado = TRUE]
    /\ UNCHANGED <<ajeno_al_bot, now, user_states, pool, planificador>>

\* self.bot.stop_polling()
StopPolling ==
    /\ bot.pc = "stop_polling"
    /\ bot' = [bot EXCEPT !.poller = "told", !.pc = PasoSiguiente("stop_polling")]
    /\ UNCHANGED <<ajeno_al_bot, now, user_states, pool, planificador>>

\* self.scheduler.stop(), first statement: self.running = False
SchedulerStop ==
    /\ bot.pc = "scheduler_stop"
    /\ running' = FALSE
    /\ orden' = "stop"
    /\ bot' = [bot EXCEPT !.parada = "invoked", !.pc = "join"]
    /\ UNCHANGED <<ajeno_al_bot, now, user_states, pool, scheduler_thread, workers>>

\* self.scheduler_thread.join(timeout=10) returns: at once when there is no thread or
\* it has ended, after the timeout otherwise, with the worker still alive
SchedulerJoin ==
    /\ bot.pc = "join"
    /\ \/ ~is_alive(scheduler_thread) /\ UNCHANGED now
       \/ is_alive(scheduler_thread) /\ now' = now + JOIN_TIMEOUT
    /\ bot' = [bot EXCEPT !.parada = "returned", !.pc = PasoSiguiente("scheduler_stop")]
    /\ UNCHANGED <<ajeno_al_bot, user_states, pool, planificador>>

\* self.db.close(): pool.close_all() pops and closes every retained connection
DbClose ==
    /\ bot.pc = "db_close"
    /\ conexiones' = 0
    /\ bot' = [bot EXCEPT !.cerrado = TRUE, !.pc = PasoSiguiente("db_close")]
    /\ UNCHANGED <<ajeno_al_bot, now, user_states, hilos, ultima, planificador>>

\* self.user_states.clear(); shutdown returns, and start_polling raises again what it
\* caught unless it was the interrupt
ShutdownTermina ==
    /\ bot.pc = "clear"
    /\ user_states' = <<>>
    /\ bot' = [bot EXCEPT !.pc = "end", !.surfaced = bot.causa # "interrupt"]
    /\ UNCHANGED <<ajeno_al_bot, now, pool, planificador>>

\* ------------------------------------------------------------ scheduler
\* _verificar_suscripciones, first half: list what is due
VerificarSuscripciones ==
    /\ pendientes = {}
    /\ pendientes' = obtener_suscripciones_pendientes
    /\ UNCHANGED <<hoy, now, ticks, usuarios, categorias, movimientos, suscripciones,
                   alertas, resumen_mensual, balance_diario, notificaciones, seq,
                   user_states, inserciones, llamada, cobros, update,
                   recordatorios, enviados, error, pool, planificador,
                   deudas, fallidos, procesos>>

\* bot.send_message(user_id, mensaje): one more message handed to the transport; n
\* tells apart repeated messages about the same thing
send_message(env, kind, user_id, ref) ==
    env \cup {[kind |-> kind, user_id |-> user_id, ref |-> ref,
               n |-> 1 + Cardinality({e \in env : e.kind = kind /\ e.ref = ref})]}

\* _notificar_suscripcion_procesada: the message goes straight to bot.send_message
SinNotificar(env, resultado, mov) == env

notificar_suscripcion_procesada(env, resultado, mov) ==
    send_message(env, "suscripcion_cobrada", resultado.user_id, mov)

\* _verificar_suscripciones, the loop body, one listed row at a time
ProcesarPendiente(suscripcion_id) ==
    LET resultado == {s \in suscripciones : s.id = suscripcion_id /\ s.activo}
    IN /\ suscripcion_id \in pendientes
       /\ procesar_suscripcion(suscripcion_id)
       /\ pendientes' = pendientes \ {suscripcion_id}
       /\ enviados' = IF resultado = {} THEN enviados
                      ELSE notificar_suscripcion_procesada(
                               enviados, CHOOSE s \in resultado : TRUE, seq'.movimientos)
       /\ error' = IF resultado = {}
                   THEN [op |-> "verificar_suscripciones", paso |-> "sin resultado"]
                   ELSE error
       /\ UNCHANGED <<hoy, now, ticks, usuarios, categorias, alertas, balance_diario,
                      notificaciones, user_states, inserciones, llamada, update,
                      recordatorios, pool, planificador,
                      deudas, fallidos, procesos>>

\* the loop body when procesar_suscripcion hits an error: a None result is only logged
ProcesarPendienteConError(suscripcion_id, paso) ==
    /\ suscripcion_id \in pendientes
    /\ procesar_suscripcion_con_error(suscripcion_id, paso)
    /\ pendientes' = pendientes \ {suscripcion_id}
    /\ enviados' = IF paso = "invalidar"
                   THEN notificar_suscripcion_procesada(enviados,
                            CHOOSE s \in suscripciones : s.id = suscripcion_id,
                            seq'.movimientos)
                   ELSE enviados
    /\ UNCHANGED <<hoy, now, ticks, usuarios, categorias, alertas, balance_diario,
                   notificaciones, user_states, inserciones, llamada, update,
                   recordatorios, pool, planificador,
                   deudas, fallidos, procesos>>

\* ------------------------------------------------------------ recordatorios
\* a caller outside the chat handlers
AgregarRecordatorio(user_id, descripcion, fecha_vencimiento) ==
    /\ agregar_recordatorio(user_id, descripcion, fecha_vencimiento)
    /\ UNCHANGED <<hoy, now, ticks, usuarios, categorias, movimientos, suscripciones,
                   alertas, resumen_mensual, balance_diario, notificaciones,
                   user_states, inserciones, llamada, pendientes, cobros, update,
                   enviados, error, pool, planificador,
                   deudas, fallidos, procesos>>

\* WHERE activo = 1 AND fecha_vencimiento <= hoy
obtener_recordatorios_pendientes ==
    {r \in recordatorios : r.activo /\ IsoKey(r.fecha_vencimiento) <= IsoKey(hoy)}

\* UPDATE recordatorios SET activo = 0 WHERE id = ?
SinMarcar(tabla, recordatorio_id) == tabla

marcar_recordatorio_procesado(tabla, recordatorio_id) ==
    {IF r.id = recordatorio_id THEN [r EXCEPT !.activo = FALSE] ELSE r : r \in tabla}

\* _enviar_recordatorio: the message goes straight to bot.send_message
enviar_recordatorio(env, recordatorio) ==
    send_message(env, "recordatorio", recordatorio.user_id, recordatorio.id)

\* the loop of _verificar_recordatorios over the rows listed: send, then mark
RECURSIVE DespacharTodos(_, _, _)
DespacharTodos(env, tabla, filas) ==
    IF filas = {} THEN [env |-> env, tabla |-> tabla]
    ELSE LET r == CHOOSE x \in filas : \A y \in filas : x.id <= y.id
         IN DespacharTodos(enviar_recordatorio(env, r),
                           marcar_recordatorio_procesado(tabla, r.id), filas \ {r})

VerificarRecordatorios ==
    LET d == DespacharTodos(enviados, recordatorios, obtener_recordatorios_pendientes)
    IN /\ enviados' = d.env
       /\ recordatorios' = d.tabla
       /\ UNCHANGED <<hoy, now, ticks, usuarios, categorias, movimientos, suscripciones,
                      alertas, resumen_mensual, balance_diario, notificaciones, seq,
                      user_states, inserciones, llamada, pendientes, cobros, update,
                      error, pool, planificador,
                      deudas, fallidos, procesos>>

\* the same loop when bot.send_message raises for the reminders of F: the except
\* clause of _enviar_recordatorio logs it and returns, and the loop marks the row
RECURSIVE DespacharConFallas(_, _, _, _, _)
DespacharConFallas(env, fall, tabla, filas, F) ==
    IF filas = {} THEN [env |-> env, fall |-> fall, tabla |-> tabla]
    ELSE LET r == CHOOSE x \in filas : \A y \in filas : x.id <= y.id
             env1 == enviar_recordatorio(env, r)
         IN DespacharConFallas(env1,
                               IF r.id \in F THEN fall \cup (env1 \ env) ELSE fall,
                               marcar_recordatorio_procesado(tabla, r.id),
                               filas \ {r}, F)

VerificarRecordatoriosConFalla(F) ==
    LET d == DespacharConFallas(enviados, fallidos, recordatorios,
                                obtener_recordatorios_pendientes, F)
    IN /\ F # {}
       /\ F \subseteq {r.id : r \in obtener_recordatorios_pendientes}
       /\ enviados' = d.env
       /\ fallidos' = d.fall
       /\ recordatorios' = d.tabla
       /\ error' = [op |-> "enviar_recordatorio", paso |-> "send_message"]
       /\ UNCHANGED <<hoy, now, ticks, usuarios, categorias, movimientos, suscripciones,
                      alertas, resumen_mensual, balance_diario, notificaciones, seq,
                      user_states, inserciones, llamada, pendientes, cobros, update,
                      pool, planificador, deudas, procesos>>

\* date.today() moves on, to a later date of F
PasaElDia(F) ==
    /\ \E f \in F : IsoKey(f) > IsoKey(hoy) /\ hoy' = f
    /\ UNCHANGED <<now, ticks, usuarios, categorias, movimientos, suscripciones,
                   alertas, resumen_mensual, balance_diario, notificaciones, seq,
                   user_states, inserciones, llamada, pendientes, cobros, update,
                   recordatorios, enviados, error, pool, planificador,
                   deudas, fallidos, procesos>>

\* ------------------------------------------------------------ reads next to a writer
\* obtener_resumen_mes and obtener_balance_diario run their SELECT ... GROUP BY tipo on
\* the connection of their own scope and then call obtener_balance_actual, which
\* enters a scope of its own; another thread can commit between the two statements.
SinLectura == [pc |-> "none", op |-> "none", user_id |-> 0, fecha |-> date(2023, 1, 31),
               antes |-> {}, despues |-> {},
               ingresos |-> 0, gastos |-> 0, ahorros |-> 0, balance |-> 0]

\* the rows the first statement of op aggregates
FilasLeidas(movs, op, user_id, fecha) ==
    IF op = "resumen" THEN FilasDelMes(movs, user_id, fecha.m, fecha.y)
    ELSE FilasDelDia(movs, user_id, fecha)

\* fecha or (mes, año) from date.today(), then the totals per tipo
LeerTotales(op, user_id) ==
    LET filas == FilasLeidas(movimientos, op, user_id, hoy)
    IN /\ lectura.pc \in {"none", "done"}
       /\ lectura' = [pc |-> "balance", op |-> op, user_id |-> user_id, fecha |-> hoy,
                      antes |-> movimientos, despues |-> {},
                      ingresos |-> SumMonto({r \in filas : r.tipo = "ingreso"}),
                      gastos |-> SumMonto({r \in filas : r.tipo = "gasto"}),
                      ahorros |-> SumMonto({r \in filas : r.tipo = "ahorro"}),
                      balance |-> 0]
       /\ UNCHANGED <<hoy, now, ticks, usuarios, categorias, movimientos, suscripciones,
                      alertas, resumen_mensual, balance_diario, notificaciones, seq,
                      user_states, inserciones, llamada, pendientes, cobros, update,
                      recordatorios, enviados, error, pool, planificador,
                      deudas, fallidos, barrido, puestas, bot>>

\* balance_final = self.obtener_balance_actual(user_id), and the dict is returned
LeerBalance ==
    /\ lectura.pc = "balance"
    /\ lectura' = [lectura EXCEPT !.pc = "done", !.despues = movimientos,
                                  !.balance = obtener_balance_actual(lectura.user_id)]
    /\ UNCHANGED <<hoy, now, ticks, usuarios, categorias, movimientos, suscripciones,
                   alertas, resumen_mensual, balance_diario, notificaciones, seq,
                   user_states, inserciones, llamada, pendientes, cobros, update,
                   recordatorios, enviados, error, pool, planificador,
                   deudas, fallidos, barrido, puestas, bot>>

\* ------------------------------------------------------------ initial state
SinEvento == [kind |-> "none", from_id |-> 0]

SinError == [op |-> "none", paso |-> "none"]

SinSalida == [con_error |-> FALSE, destino |-> "none", propagada |-> FALSE]

\* BotManager.__init__: is_running = False, nothing started
BotNuevo == [is_running |-> FALSE, pc |-> "none", attempt |-> 0, esperas |-> 0,
             poller |-> "idle", causa |-> "none", invocado |-> FALSE,
             parada |-> "none", cerrado |-> FALSE, surfaced |-> FALSE]

\* a fresh database (_initialize_database), an empty state store, no pass running
Init ==
    /\ now = 0
    /\ ticks = 0
    /\ usuarios = <<>>
    /\ categorias = {}
    /\ movimientos = {}
    /\ suscripciones = {}
    /\ alertas = {}
    /\ resumen_mensual = {}
    /\ balance_diario = {}
    /\ notificaciones = {}
    /\ seq = [movimientos |-> 0, suscripciones |-> 0, alertas |-> 0, notificaciones |-> 0,
             recordatorios |-> 0, deudas |-> 0]
    /\ user_states = <<>>
    /\ inserciones = 0
    /\ llamada = [op |-> "none", user_id |-> 0, res |-> {}, log |-> {}]
    /\ pendientes = {}
    /\ cobros = {}
    /\ update = SinEvento
    /\ recordatorios = {}
    /\ enviados = {}
    /\ error = SinError
    /\ conexiones = 0
    /\ hilos = [t \in Hilos |-> "fuera"]
    /\ ultima = SinSalida
    /\ running = FALSE
    /\ scheduler_thread = 0
    /\ workers = <<>>
    /\ orden = "none"
    /\ deudas = {}
    /\ fallidos = {}
    /\ barrido = SinBarrido
    /\ puestas = [h \in Manejadores |-> SinPuesta]
    /\ bot = BotNuevo
    /\ lectura = SinLectura

\* ------------------------------------------------------------ the ledger and the scheduler
FechasLedger == {date(2023, 1, 31), date(2024, 1, 31)}

\* <<user_id, tipo, monto>> of the movement writes tried
EntradasLedger ==
    {<<42, "ingreso", 6>>, <<42, "gasto", 4>>, <<42, "ahorro", 4>>, <<7, "gasto", 6>>,
     <<42, "otro", 4>>, <<42, "gasto", 0>>, <<42, "gasto", 1000000000>>}

InitLedger == Init /\ hoy = date(2023, 1, 31)

NextLedger ==
    \/ crear_usuario(42)
    \/ actualizar_balance_inicial(42, 100)
    \/ \E e \in EntradasLedger : AgregarMovimiento(e[1], e[2], "Comida", e[3], "almuerzo")
    \/ \E i \in 1..MaxMovimientos, u \in Users : eliminar_movimiento(i, u)
    \/ AgregarSuscripcion(42, "Netflix", 4, "Ocio", 10)
    \/ VerificarSuscripciones
    \/ \E i \in 1..MaxSuscripciones : ProcesarPendiente(i)
    \/ PasaElDia(FechasLedger)

SpecLedger == InitLedger /\ [][NextLedger]_vars

\* ------------------------------------------------------------ subscriptions over a year end
FechasSuscripciones ==
    {date(2023, 1, 31), date(2023, 12, 31), date(2024, 1, 31), date(2024, 2, 29)}

DiasCobro == {10, 31}

InitSuscripciones == Init /\ hoy = date(2023, 1, 31)

NextSuscripciones ==
    \/ \E m \in {0, 4}, d \in DiasCobro : AgregarSuscripcion(42, "Netflix", m, "Ocio", d)
    \/ \E i \in 1..MaxSuscripciones, u \in Users : desactivar_suscripcion(i, u)
    \/ AgregarMovimiento(42, "gasto", "Comida", 6, "almuerzo")
    \/ VerificarSuscripciones
    \/ \E i \in 1..MaxSuscripciones : ProcesarPendiente(i)
    \/ PasaElDia(FechasSuscripciones)

SpecSuscripciones == InitSuscripciones /\ [][NextSuscripciones]_vars

\* ------------------------------------------------------------ spending alerts
FechasAlertas == {date(2023, 1, 30), date(2023, 1, 31)}

\* <<user_id, tipo, monto>> of the movement writes tried
EntradasAlertas ==
    {<<42, "gasto", 4>>, <<42, "gasto", 10>>, <<42, "ingreso", 10>>, <<7, "gasto", 10>>}

InitAlertas == Init /\ hoy = date(2023, 1, 30)

NextAlertas ==
    \/ \E u \in Users, t \in ALERT_TYPES \cup {"semanal"} : AgregarAlerta(u, t, 10)
    \/ \E i \in 1..MaxAlertas, u \in Users : desactivar_alerta(i, u)
    \/ \E e \in EntradasAlertas : AgregarMovimiento(e[1], e[2], "Comida", e[3], "almuerzo")
    \/ PasaElDia(FechasAlertas)

SpecAlertas == InitAlertas /\ [][NextAlertas]_vars

\* ------------------------------------------------------------ the outbox over time
\* Every operation of the program that touches the outbox, each taken whenever it
\* stays possible.  No handler, scheduler job or start-up step of the program calls
\* obtener_notificaciones_pendientes or marcar_notificacion_procesada.
SpecBuzon == InitAlertas /\ [][NextAlertas]_vars /\ WF_vars(NextAlertas)

\* ------------------------------------------------------------ alerts that fail to evaluate
InitAlertasFalla == Init /\ hoy = date(2023, 1, 30)

NextAlertasFalla ==
    \/ \E t \in ALERT_TYPES, l \in {5, 12} : AgregarAlerta(42, t, l)
    \/ \E i \in 1..MaxAlertas : desactivar_alerta(i, 42)
    \/ \E t \in {"gasto", "ingreso"} : AgregarMovimiento(42, t, "Comida", 6, "almuerzo")
    \/ \E p \in ALERT_TYPES : AgregarMovimientoConFalla(42, "Comida", 6, "almuerzo", p)

SpecAlertasFalla == InitAlertasFalla /\ [][NextAlertasFalla]_vars

\* ------------------------------------------------------------ charges that fail part-way
PasosCobro == {"insert", "update", "invalidar"}

InitCobrosFallidos == Init /\ hoy = date(2023, 1, 31)

NextCobrosFallidos ==
    \/ \E d \in DiasCobro : AgregarSuscripcion(42, "Netflix", 4, "Ocio", d)
    \/ \E i \in 1..MaxSuscripciones : desactivar_suscripcion(i, 42)
    \/ AgregarMovimiento(42, "gasto", "Comida", 6, "almuerzo")
    \/ VerificarSuscripciones
    \/ \E i \in 1..MaxSuscripciones : ProcesarPendiente(i)
    \/ \E i \in 1..MaxSuscripciones, p \in PasosCobro : ProcesarPendienteConError(i, p)
    \/ PasaElDia(FechasSuscripciones)

SpecCobrosFallidos == InitCobrosFallidos /\ [][NextCobrosFallidos]_vars

\* ------------------------------------------------------------ charges under an alert
FechasCargos == {date(2023, 1, 30), date(2023, 1, 31)}

InitCargos == Init /\ hoy = date(2023, 1, 30)

NextCargos ==
    \/ \E t \in ALERT_TYPES, l \in {5, 8} : AgregarAlerta(42, t, l)
    \/ \E i \in 1..MaxAlertas : desactivar_alerta(i, 42)
    \/ \E m \in {4, 6} : AgregarMovimiento(42, "gasto", "Comida", m, "almuerzo")
    \/ AgregarSuscripcion(42, "Netflix", 6, "Ocio", 31)
    \/ VerificarSuscripciones
    \/ \E i \in 1..MaxSuscripciones : ProcesarPendiente(i)
    \/ PasaElDia(FechasCargos)

SpecCargos == InitCargos /\ [][NextCargos]_vars

\* ------------------------------------------------------------ the pool under threads
InitPool == Init /\ hoy = date(2023, 1, 31)

NextPool ==
    \/ \E t \in Hilos : Entrar(t)
    \/ \E t \in Hilos : Fallar(t)
    \/ \E t \in Hilos : Salir(t)
    \/ close_all

SpecPool == InitPool /\ [][NextPool]_vars

\* ------------------------------------------------------------ the scheduler worker
InitScheduler == Init /\ hoy = date(2023, 1, 31)

NextScheduler ==
    \/ start
    \/ stop
    \/ \E w \in 1..MaxArranques, D \in SUBSET Tareas : Despertar(w, D)
    \/ \E w \in 1..MaxArranques, t \in Tareas : EmpezarTarea(w, t)
    \/ \E w \in 1..MaxArranques, r \in {"ok", "raise"} : TerminarTarea(w, r)
    \/ \E w \in 1..MaxArranques : Dormir(w)
    \/ handle_balance(42)

SpecScheduler == InitScheduler /\ [][NextScheduler]_vars

\* ------------------------------------------------------------ reminders falling due
FechasRecordatorios == {date(2024, 3, 19), date(2024, 3, 20), date(2024, 4, 1)}

InitRecordatorios == Init /\ hoy = date(2024, 3, 19)

NextRecordatorios ==
    \/ \E u \in Users, f \in FechasRecordatorios :
          AgregarRecordatorio(u, "Pagar tarjeta", f)
    \/ VerificarRecordatorios
    \/ PasaElDia(FechasRecordatorios)

SpecRecordatorios == InitRecordatorios /\ [][NextRecordatorios]_vars

\* ------------------------------------------------------------ reminders the transport refuses
InitEntregas == Init /\ hoy = date(2024, 3, 19)

NextEntregas ==
    \/ \E u \in Users, f \in FechasRecordatorios :
          AgregarRecordatorio(u, "Pagar tarjeta", f)
    \/ VerificarRecordatorios
    \/ \E F \in SUBSET (1..MaxRecordatorios) : VerificarRecordatoriosConFalla(F)
    \/ PasaElDia(FechasRecordatorios)

SpecEntregas == InitEntregas /\ [][NextEntregas]_vars

\* ------------------------------------------------------------ subscriptions created on any day
FechasAltas ==
    {date(2023, 1, 15), date(2023, 1, 31), date(2023, 2, 10), date(2023, 4, 10),
     date(2023, 12, 31), date(2024, 1, 1), date(2024, 1, 31)}

InitAltas == Init /\ hoy \in FechasAltas

NextAltas ==
    \/ \E d \in 1..31 : AgregarSuscripcion(42, "Netflix", 4, "Ocio", d)
    \/ \E i \in 1..MaxSuscripciones : desactivar_suscripcion(i, 42)
    \/ PasaElDia(FechasAltas)

SpecAltas == InitAltas /\ [][NextAltas]_vars

\* ------------------------------------------------------------ the state store
ClavesStore == {42, 7, 8, 9}

NextStore ==
    \/ \E u \in ClavesStore : SetUserState(u, "monto_gasto")
    \/ \E u \in ClavesStore : GetUserState(u)
    \/ \E u \in ClavesStore : ClearUserState(u)
    \/ LimpiarEstadosUsuario
    \/ \E dt \in {1, STATE_TIMEOUT} : PasaElTiempo(dt)

InitStore == Init /\ hoy = date(2023, 1, 31)

SpecStore == InitStore /\ [][NextStore]_vars

\* ------------------------------------------------------------ the state store under threads
\* the sweep of the scheduler next to two handler threads of the principal
NextHebras ==
    \/ \E h \in Manejadores, p \in {"monto_gasto", "alerta_monto"} :
          PuestaHaceLugar(h, AUTHORIZED_USER_ID, p)
    \/ \E h \in Manejadores : PuestaAsigna(h)
    \/ ClearUserState(AUTHORIZED_USER_ID)
    \/ BarridoEmpieza
    \/ BarridoSiguiente
    \/ BarridoBorra
    \/ \E dt \in {1, STATE_TIMEOUT} : PasaElTiempo(dt)

InitHebras == Init /\ hoy = date(2023, 1, 31)

SpecHebras == InitHebras /\ [][NextHebras]_vars

\* ------------------------------------------------------------ polling and shutdown
\* start_scheduler, then start_polling, next to a scheduler task and a handler that
\* hold a connection of the pool
InitArranque == Init /\ hoy = date(2023, 1, 31)

NextArranque ==
    \/ start
    \/ Despertar(1, {"suscripciones"})
    \/ EmpezarTarea(1, "suscripciones")
    \/ TerminarTarea(1, "ok")
    \/ Dormir(1)
    \/ \E t \in {1, 2} : Entrar(t)
    \/ \E t \in {1, 2} : Salir(t)
    \/ start_polling
    \/ \E e \in {"409", "otro"} : PollingFalla(e)
    \/ Reintentar
    \/ Interrumpir
    \/ Shutdown
    \/ StopPolling
    \/ SchedulerStop
    \/ SchedulerJoin
    \/ DbClose
    \/ ShutdownTermina

SpecArranque == InitArranque /\ [][NextArranque]_vars

\* ------------------------------------------------------------ reads next to a writer
\* a summary or a daily balance is read while a handler and the scheduler write
InitLecturas == Init /\ hoy = date(2023, 1, 31)

NextLecturas ==
    \/ \E op \in {"resumen", "diario"} : LeerTotales(op, AUTHORIZED_USER_ID)
    \/ LeerBalance
    \/ \E t \in {"ingreso", "gasto"}, m \in {4, 6} :
          AgregarMovimiento(AUTHORIZED_USER_ID, t, "Comida", m, "almuerzo")
    \/ AgregarSuscripcion(AUTHORIZED_USER_ID, "Netflix", 4, "Ocio", 31)
    \/ VerificarSuscripciones
    \/ \E i \in 1..MaxSuscripciones : ProcesarPendiente(i)
    \/ PasaElDia({date(2023, 2, 28)})

SpecLecturas == InitLecturas /\ [][NextLecturas]_vars

\* ------------------------------------------------------------ the chat front end
Textos == {"4", "abc", "no"}

Botones == {"select_cat_gasto_Comida", "alerta_tipo_diario", "back_to_menu"}

NextBot ==
    \/ \E u \in Users : handle_start(u)
    \/ \E u \in Users : handle_balance(u)
    \/ \E u \in Users, t \in {"", "4"} : handle_gasto_rapido(u, t)
    \/ \E u \in Users, t \in {"abc", "4"} : handle_ingreso_rapido(u, t)
    \/ \E u \in Users : handle_resumen(u)
    \/ \E u \in Users : handle_backup(u)
    \/ \E u \in Users : handle_ayuda(u)
    \/ \E u \in Users, t \in Textos : handle_text_input(u, t)
    \/ \E u \in Users, d \in Botones : handle_callback_query(u, d)

InitBot == Init /\ hoy = date(2023, 1, 31)

SpecBot == InitBot /\ [][NextBot]_vars

\* ------------------------------------------------------------ the dialogs, step by step
\* the texts the principal sends: an amount that is also a day, a name, a date, a zero
TextosDialogo == {"4", "Ana", "20/03/2024", "0"}

BotonesDialogo ==
    {"select_cat_gasto_Comida", "nueva_categoria_gasto",
     "agregar_suscripcion", "suscripcion_cat_Comida", "agregar_recordatorio",
     "agregar_deuda", "deuda_tipo_positiva", "alerta_tipo_diario",
     "config_balance_inicial"}

NextDialogos ==
    \/ handle_start(AUTHORIZED_USER_ID)
    \/ \E t \in TextosDialogo : handle_text_input(AUTHORIZED_USER_ID, t)
    \/ \E d \in BotonesDialogo : handle_callback_query(AUTHORIZED_USER_ID, d)

InitDialogos == Init /\ hoy = date(2023, 1, 31)

SpecDialogos == InitDialogos /\ [][NextDialogos]_vars

\* ------------------------------------------------------------ commits and the transport
BotonesCompromisos ==
    {"agregar_suscripcion", "suscripcion_cat_Comida", "agregar_recordatorio",
     "alerta_tipo_diario", "select_cat_gasto_Comida", "config_balance_inicial"}

NextCompromisos ==
    \/ handle_start(AUTHORIZED_USER_ID)
    \/ \E t \in {"4", "Ana", "20/03/2024"} : handle_text_input(AUTHORIZED_USER_ID, t)
    \/ \E t \in {"4", "Ana", "20/03/2024"} :
          handle_text_input_con_falla(AUTHORIZED_USER_ID, t)
    \/ \E d \in BotonesCompromisos : handle_callback_query(AUTHORIZED_USER_ID, d)

InitCompromisos == Init /\ hoy = date(2023, 1, 31)

SpecCompromisos == InitCompromisos /\ [][NextCompromisos]_vars

\* ------------------------------------------------------------ the fast path next to a dialog
TextosRapidos == {"", "4", "abc", "10"}

NextRapido ==
    \/ \E t \in TextosRapidos : handle_gasto_rapido(AUTHORIZED_USER_ID, t)
    \/ \E t \in TextosRapidos : handle_ingreso_rapido(AUTHORIZED_USER_ID, t)
    \/ \E t \in {"4", "Ana"} : handle_text_input(AUTHORIZED_USER_ID, t)
    \/ \E d \in {"agregar_gasto", "select_cat_gasto_Comida", "nueva_categoria_gasto"} :
          handle_callback_query(AUTHORIZED_USER_ID, d)

InitRapido == Init /\ hoy = date(2023, 1, 31)

SpecRapido == InitRapido /\ [][NextRapido]_vars

\* ------------------------------------------------------------ properties of the ledger
SumaDe(user_id, tipo) ==
    SumMonto({r \in movimientos : r.user_id = user_id /\ r.tipo = tipo})

BalanceInicial(user_id) ==
    IF user_id \in DOMAIN usuarios THEN usuarios[user_id].balance_inicial ELSE 0

\* C1: for every principal U, in every state reached by any interleaving of
\* add_movement, delete_movement, update_initial_balance and the scheduler's
\* process_subscription, current_balance(U) = initial_balance(U) + sum of U's income
\* - sum of U's expenses - sum of U's savings.
C1_BalanceIdentity ==
    \A u \in Users :
        obtener_balance_actual(u) =
            BalanceInicial(u) + SumaDe(u, "ingreso") - SumaDe(u, "gasto") - SumaDe(u, "ahorro")

\* a state with an initial balance set, a saving, and a subscription charge
C1_Witness ==
    /\ 42 \in DOMAIN usuarios /\ usuarios[42].balance_inicial = 100
    /\ \E r \in movimientos : r.user_id = 42 /\ r.tipo = "ahorro"
    /\ \E c \in cobros : \E r \in movimientos : r.id = c.mov /\ r.user_id = 42

Periodos == {[m |-> 1, y |-> 2023], [m |-> 1, y |-> 2024], [m |-> 2, y |-> 2023]}

SumaDelPeriodo(user_id, mes, anio, tipo) ==
    SumMonto({r \in movimientos :
                 r.user_id = user_id /\ r.tipo = tipo /\ r.mes = mes /\ r.anio = anio})

ResumenCoincide(res, user_id, mes, anio) ==
    /\ res.ingresos = SumaDelPeriodo(user_id, mes, anio, "ingreso")
    /\ res.gastos = SumaDelPeriodo(user_id, mes, anio, "gasto")
    /\ res.ahorros = SumaDelPeriodo(user_id, mes, anio, "ahorro")

\* C6: for every principal U and period (m, y), month_summary(U, m, y) returns
\* per-kind totals equal to the sums of U's persisted movements of month m and year
\* y, and all three are zero when there are none; without a period it answers for
\* the current month.
C6_MonthSummary ==
    \A u \in Users :
        /\ \A p \in Periodos :
              LET res == obtener_resumen_mes(u, p.m, p.y)
              IN /\ ResumenCoincide(res, u, p.m, p.y)
                 /\ (\A r \in movimientos : ~(r.user_id = u /\ r.mes = p.m /\ r.anio = p.y))
                       => (res.ingresos = 0 /\ res.gastos = 0 /\ res.ahorros = 0)
        /\ ResumenCoincide(obtener_resumen_mes(u, 0, 0), u, hoy.m, hoy.y)

\* one principal has expenses in the same month of two different years
C6_Witness ==
    \E r1, r2 \in movimientos :
        /\ r1.user_id = 42 /\ r2.user_id = 42
        /\ r1.tipo = "gasto" /\ r2.tipo = "gasto"
        /\ r1.mes = r2.mes /\ r1.anio = 2023 /\ r2.anio = 2024

SumaDelDia(user_id, fecha, tipo) ==
    SumMonto({r \in movimientos :
                 r.user_id = user_id /\ r.tipo = tipo /\ r.fecha = fecha})

\* C7: every stored daily-summary row for (U, d) has per-kind totals equal to the sums
\* of U's persisted movements dated d, also after delete_movement and
\* process_subscription.
C7_DailySummaryCoherent ==
    \A b \in balance_diario :
        /\ b.ingresos = SumaDelDia(b.user_id, b.fecha, "ingreso")
        /\ b.gastos = SumaDelDia(b.user_id, b.fecha, "gasto")
        /\ b.ahorros = SumaDelDia(b.user_id, b.fecha, "ahorro")

\* ------------------------------------------------------------ properties of subscriptions
Activa(suscripcion_id) == {s \in suscripciones : s.id = suscripcion_id /\ s.activo}

Cobra(suscripcion_id) == ProcesarPendiente(suscripcion_id) /\ Activa(suscripcion_id) # {}

MesSiguiente == IF hoy.m = 12 THEN 1 ELSE hoy.m + 1

AnioDelMesSiguiente == IF hoy.m = 12 THEN hoy.y + 1 ELSE hoy.y

\* C4: process_subscription on an active subscription inserts exactly one movement,
\* an expense with the subscription's amount and category, described by the fixed
\* prefix (in the program's language, "Suscripción: ") followed by its name, and sets
\* next_charge_date to day min(charge_day, days in that month) of the month after the
\* processing date, December rolling over to January of the next year.
C4_ProcessSubscription ==
    [][\A i \in 1..MaxSuscripciones :
          Cobra(i) =>
            LET s == CHOOSE x \in Activa(i) : TRUE
                nuevos == movimientos' \ movimientos
                dias == monthrange(AnioDelMesSiguiente, MesSiguiente)
            IN /\ movimientos \subseteq movimientos'
               /\ Cardinality(nuevos) = 1
               /\ \A r \in nuevos :
                     /\ r.tipo = "gasto" /\ r.monto = s.monto /\ r.categoria = s.categoria
                     /\ r.user_id = s.user_id /\ r.fecha = hoy
                     /\ r.descripcion = "Suscripción: " \o s.nombre
               /\ \E t \in suscripciones' :
                     /\ t.id = i
                     /\ t.proximo_cobro =
                          date(AnioDelMesSiguiente, MesSiguiente,
                               IF s.dia_cobro <= dias THEN s.dia_cobro ELSE dias)
                     /\ t = [s EXCEPT !.proximo_cobro = t.proximo_cobro]
               /\ \A t \in suscripciones : t.id # i => t \in suscripciones'
    ]_vars

\* charged on 31 December and on 31 January: rolled over the year, then clamped
\* to the 29 days of February 2024
C4_Witness ==
    \E s \in suscripciones :
        /\ s.dia_cobro = 31 /\ s.proximo_cobro = date(2024, 2, 29)
        /\ \E c \in cobros : c.sid = s.id /\ c.fecha = date(2023, 12, 31)
        /\ \E c \in cobros : c.sid = s.id /\ c.fecha = date(2024, 1, 31)

CobrosDe(log, suscripcion_id, fecha) ==
    {c \in log : c.sid = suscripcion_id /\ c.fecha = fecha}

\* C5: right after process_subscription succeeds the subscription's next_charge_date
\* is later than the processing date and list_due_subscriptions no longer returns
\* it; over any number of scheduler passes on one date it has exactly one charge
\* movement of that date.
C5_ChargedOncePerDate ==
    [][/\ \A i \in 1..MaxSuscripciones :
            Cobra(i) =>
              /\ \A t \in suscripciones' :
                    t.id = i => IsoKey(t.proximo_cobro) > IsoKey(hoy)
              /\ i \notin obtener_suscripciones_pendientes'
              /\ Cardinality(CobrosDe(cobros', i, hoy)) = 1
       /\ \A i \in 1..MaxSuscripciones :
            /\ Cardinality(CobrosDe(cobros', i, hoy')) <= 1
            /\ \A c \in CobrosDe(cobros', i, hoy') :
                  Cardinality({r \in movimientos' : r.id = c.mov /\ r.fecha = hoy'}) = 1
    ]_vars

\* a second pass has started on the date of a charge and lists nothing
C5_Witness ==
    \E c \in cobros :
        /\ c.fecha = hoy
        /\ pendientes = {}
        /\ obtener_suscripciones_pendientes = {}
        /\ \E s \in suscripciones : s.id = c.sid /\ s.activo /\ s.dia_cobro = 31

\* ------------------------------------------------------------ properties of alerts
GastadoHoy(movs, user_id) ==
    SumMonto({r \in movs : r.user_id = user_id /\ r.tipo = "gasto" /\ r.fecha = hoy})

AvisosDiarios(notifs, user_id) ==
    {n \in notifs : n.user_id = user_id /\ n.tipo = "alerta_limite" /\ n.datos.tipo = "diario"}

\* C3: when principal U, holding an active daily alert, writes an expense that takes
\* the day's expense sum from at most the threshold to strictly above it, that write
\* enqueues exactly one unprocessed alert row of scope daily carrying the threshold,
\* spent = the sum including the write and excess = spent - threshold; a write that
\* leaves the sum at or below the threshold enqueues no daily alert row.
C3_DailyAlert ==
    [][\A u \in Users : \A a \in AlertaActiva(u, "diario") :
          (\E m \in {4, 10} : AgregarMovimiento(u, "gasto", "Comida", m, "almuerzo")) =>
            LET antes == GastadoHoy(movimientos, u)
                gastado == GastadoHoy(movimientos', u)
                nuevos == AvisosDiarios(notificaciones', u) \ notificaciones
            IN /\ (antes <= a.limite /\ gastado > a.limite) =>
                    /\ Cardinality(nuevos) = 1
                    /\ \A n \in nuevos :
                          /\ n.procesada = FALSE
                          /\ n.datos = [tipo |-> "diario", limite |-> a.limite,
                                        gastado |-> gastado, exceso |-> gastado - a.limite]
               /\ gastado <= a.limite => nuevos = {}
               /\ notificaciones \subseteq notificaciones'
               /\ \A v \in Users \ {u} :
                     AvisosDiarios(notificaciones', v) = AvisosDiarios(notificaciones, v)
    ]_vars

\* spent exactly the threshold first (no row), then 4 more: one row, excess 4
C3_Witness ==
    /\ \E r \in movimientos : r.id = 1 /\ r.user_id = 42 /\ r.tipo = "gasto" /\ r.monto = 10
    /\ Cardinality(AvisosDiarios(notificaciones, 42)) = 1
    /\ \E n \in AvisosDiarios(notificaciones, 42) :
          n.datos = [tipo |-> "diario", limite |-> 10, gastado |-> 14, exceso |-> 4]
             /\ ~n.procesada

\* ------------------------------------------------------------ properties of the state store
Entradas(store) == {store[i] : i \in 1..Len(store)}

\* C8: after any sequence of get, set, clear and sweep calls the conversation state
\* store holds at most MAX_USER_STATES entries.
C8_StoreBounded == Len(user_states) <= MAX_USER_STATES

\* the store is full and a set has just evicted a key to keep it so
C8_Witness ==
    /\ Len(user_states) = MAX_USER_STATES
    /\ llamada.op = "set" /\ llamada.log # {}

\* C9: when the store holds exactly MAX_USER_STATES entries and set is called for a
\* key not present, exactly the earliest-inserted key is removed, the new key is
\* stored, every other entry is unchanged, and get on the evicted key returns nothing.
C9_EvictsEarliest ==
    [][\A u \in ClavesStore :
          (/\ SetUserState(u, "monto_gasto")
           /\ Len(user_states) = MAX_USER_STATES
           /\ u \notin Claves(user_states)) =>
            LET viejo == CHOOSE e \in Entradas(user_states) :
                             \A f \in Entradas(user_states) : e.ins <= f.ins
            IN /\ Claves(user_states') = (Claves(user_states) \ {viejo.user_id}) \cup {u}
               /\ Len(user_states') = MAX_USER_STATES
               /\ \A e \in Entradas(user_states) \ {viejo} : e \in Entradas(user_states')
               /\ \E e \in Entradas(user_states') :
                     e.user_id = u /\ e.state.step = "monto_gasto" /\ e.state.timestamp = now
               /\ dict_get(user_states', viejo.user_id) = {}
    ]_vars

\* a set for a third key has evicted the key inserted first; a get on it found nothing
C9_Witness ==
    /\ llamada.op = "get" /\ llamada.res = {}
    /\ inserciones = 3
    /\ Len(user_states) = MAX_USER_STATES
    /\ \A e \in Entradas(user_states) : e.ins > 1 /\ e.user_id # llamada.user_id

\* C10: after sweep_expired runs at time t no remaining entry has t - timestamp
\* greater than STATE_TTL, and every entry at most STATE_TTL old is still present
\* with its step and payload unchanged.
C10_Sweep ==
    [][LimpiarEstadosUsuario =>
          /\ \A e \in Entradas(user_states') : now - e.state.timestamp <= STATE_TIMEOUT
          /\ \A e \in Entradas(user_states) :
                now - e.state.timestamp <= STATE_TIMEOUT => e \in Entradas(user_states')
          /\ Entradas(user_states') \subseteq Entradas(user_states)
    ]_vars

\* a sweep has removed an entry and kept one that is exactly STATE_TIMEOUT old
C10_Witness ==
    /\ llamada.op = "cleanup" /\ llamada.log # {}
    /\ \E e \in Entradas(user_states) : now - e.state.timestamp = STATE_TIMEOUT

\* ------------------------------------------------------------ properties of the front end
\* C2: handling a command, a text message or a button callback whose sender is not
\* the configured principal leaves every ledger table, the notification outbox and
\* the conversation state store unchanged.
C2_UnauthorizedNoEffect ==
    [][(update' # update /\ update'.from_id # AUTHORIZED_USER_ID) =>
          UNCHANGED <<usuarios, categorias, movimientos, suscripciones, alertas,
                      resumen_mensual, balance_diario, notificaciones, seq, user_states>>
    ]_vars

\* a stranger's text message has been handled while the principal was in a dialog
\* and the ledger held movements and an alert
C2_Witness ==
    /\ update = Evento("text", 7)
    /\ Len(user_states) = 1
    /\ movimientos # {}
    /\ alertas # {}

\* ------------------------------------------------------------ properties of the alert evaluation
GastadoEsteMes(movs, user_id) ==
    SumMonto({r \in movs : r.user_id = user_id /\ r.tipo = "gasto" /\ r.mes = hoy.m
                             /\ r.anio = hoy.y})

AvisoNuevo(user_id, tipo) ==
    \E n \in notificaciones' \ notificaciones :
        n.user_id = user_id /\ n.tipo = "alerta_limite" /\ n.datos.tipo = tipo

\* C11: every step that persists an expense movement, through add_movement or
\* through process_subscription, enqueues in the same step an alert notification for
\* each active alert of the principal, daily or monthly, whose expense sum then
\* strictly exceeds the threshold.
C11_AlertOnEveryExpenseWrite ==
    [][\A u \in Users, a \in alertas :
          (/\ \E r \in movimientos' \ movimientos : r.user_id = u /\ r.tipo = "gasto"
           /\ a.user_id = u /\ a.activa
           /\ \/ a.tipo = "diario" /\ GastadoHoy(movimientos', u) > a.limite
              \/ a.tipo = "mensual" /\ GastadoEsteMes(movimientos', u) > a.limite)
          => AvisoNuevo(u, a.tipo)
    ]_vars

\* C12: an expense passed to add_movement with valid inputs is persisted whether or
\* not an alert fires and also when the alert evaluation raises; and every expense
\* write made while the day's sum already exceeds the active daily threshold
\* enqueues a row of its own.
C12_AlertNeverBlocksWrite ==
    [][/\ (\/ AgregarMovimiento(42, "gasto", "Comida", 6, "almuerzo")
           \/ \E p \in ALERT_TYPES :
                 AgregarMovimientoConFalla(42, "Comida", 6, "almuerzo", p))
          => movimientos' = movimientos \cup
                {NuevoMovimiento(seq.movimientos + 1, 42, "gasto", "Comida", 6,
                                 "almuerzo")}
       /\ \A a \in alertas :
             (/\ AgregarMovimiento(42, "gasto", "Comida", 6, "almuerzo")
              /\ a.user_id = 42 /\ a.activa /\ a.tipo = "diario"
              /\ GastadoHoy(movimientos, 42) > a.limite)
             => Cardinality({n \in notificaciones' \ notificaciones :
                                n.datos.tipo = "diario"}) = 1
    ]_vars

\* the evaluation raised on one expense write, the expense stayed, and the next
\* write, made with the threshold already exceeded, enqueued its own row
C12_Witness ==
    /\ error.op = "verificar_alertas_limites"
    /\ Cardinality({r \in movimientos : r.tipo = "gasto"}) = 2
    /\ \E n \in notificaciones : n.datos.tipo = "diario" /\ n.datos.gastado = 12

\* ------------------------------------------------------------ properties of the transactions
CargosNuevos ==
    {r \in movimientos' \ movimientos :
        \E s \in suscripciones :
            /\ r.user_id = s.user_id /\ r.tipo = "gasto" /\ r.monto = s.monto
            /\ r.descripcion = DescripcionSuscripcion(s.nombre)}

Avanzadas ==
    {s \in suscripciones :
        \E x \in suscripciones' : x.id = s.id /\ x.proximo_cobro # s.proximo_cobro}

\* C13: process_subscription is all-or-nothing: across every step, also one in which
\* the operation raised part-way, a charge movement becomes visible exactly when the
\* next_charge_date of one subscription is advanced: as many new charges as
\* advanced subscriptions, and never more than one of each.
C13_ChargeAllOrNothing ==
    [][/\ Cardinality(CargosNuevos) = Cardinality(Avanzadas)
       /\ Cardinality(Avanzadas) <= 1]_vars

\* the UPDATE of next_charge_date raised after the charge had been inserted, and
\* neither the charge nor a new date is visible
C13_Witness ==
    /\ error = [op |-> "procesar_suscripcion", paso |-> "update"]
    /\ movimientos = {}
    /\ \E s \in suscripciones : s.activo /\ IsoKey(s.proximo_cobro) <= IsoKey(hoy)

\* ------------------------------------------------------------ properties of the pool
\* C14: under any interleaving of scoped acquisitions and releases by the threads
\* the pool never retains more than MAX_CONNECTIONS connections, and a connection
\* released while it already retains MAX_CONNECTIONS is closed, not retained.
C14_PoolBounded ==
    [][/\ conexiones' <= MAX_CONNECTIONS
       /\ \A t \in Hilos :
             (Salir(t) /\ conexiones = MAX_CONNECTIONS)
             => (ultima'.destino = "cerrada" /\ conexiones' = conexiones)
    ]_vars

\* a release found the pool full and closed its connection
C14_Witness ==
    /\ ultima.destino = "cerrada"
    /\ conexiones = MAX_CONNECTIONS

\* C15: when an error is raised inside a scoped acquisition the connection is
\* rolled back, closed and not put back into the pool, and the error reaches the
\* caller of the scope.
C15_ErrorDiscardsConnection ==
    ultima.con_error => (ultima.destino = "cerrada" /\ ultima.propagada)

\* ------------------------------------------------------------ properties of the scheduler
Vivos == {w \in 1..Len(workers) : workers[w].pc # "dead"}

Ejecutando == {w \in 1..Len(workers) : workers[w].pc = "job"}

\* C16: no two scheduler tasks execute at the same time: whatever task is executing
\* is executed by the one scheduler worker, while chat handlers go on being served.
C16_TasksSequential ==
    /\ Cardinality(Ejecutando) <= 1
    /\ \A w \in Ejecutando : w = scheduler_thread /\ Vivos = {w}

\* the worker is inside its second task of a wake-up after a chat command was served
C16_Witness ==
    /\ update.kind = "balance"
    /\ \E w \in Ejecutando : Cardinality(workers[w].due) = 2 /\ workers[w].tarea = "estados"

\* C17: a task that raises does not end the worker loop and does not keep the other
\* tasks due in the same wake-up, nor those of later wake-ups, from running: the
\* worker stays in run_pending with every other due task still due.
C17_TaskErrorContained ==
    [][\A w \in 1..Len(workers) :
          TerminarTarea(w, "raise")
          => /\ workers'[w].pc = "pending"
             /\ workers'[w].due = workers[w].due \ {workers[w].tarea}
    ]_vars

\* a task raised and the same worker is now executing another task
C17_Witness ==
    /\ error = [op |-> "safe_run", paso |-> "suscripciones"]
    /\ \E w \in Ejecutando : workers[w].tarea = "recordatorios"

\* C18: whenever the last call was start(), exactly one worker is alive and its loop
\* goes on (the flag it tests at its next wake-up is up).
C18_StartEffective ==
    orden = "start" => (running /\ Cardinality(Vivos) = 1)

\* ------------------------------------------------------------ properties of the notifications
Propietario(suscripcion_id) ==
    (CHOOSE s \in suscripciones : s.id = suscripcion_id).user_id

MensajesNuevos(r) ==
    {e \in enviados' \ enviados :
        e.kind = "recordatorio" /\ e.ref = r.id /\ e.user_id = r.user_id}

Inactivo(recordatorio_id) ==
    \E x \in recordatorios' : x.id = recordatorio_id /\ ~x.activo

Entregados == enviados \ fallidos

\* C21: a reminder is inactive, and an outbox row processed, only after a delivery
\* attempt of it has succeeded; one whose attempt failed stays pending for the next
\* pass.
C21_AtLeastOnce ==
    /\ \A r \in recordatorios :
          ~r.activo => \E e \in Entregados : e.kind = "recordatorio" /\ e.ref = r.id
    /\ \A n \in notificaciones :
          n.procesada => \E e \in Entregados : e.kind = n.tipo /\ e.ref = n.id

\* C22: every row enqueued in the outbox is eventually dequeued, delivered to its
\* principal and marked processed; no unprocessed row stays in the outbox forever.
C22_OutboxDrained ==
    \A i \in 1..(2 * MaxMovimientos) :
        (\E n \in obtener_notificaciones_pendientes : n.id = i)
            ~> (\E n \in notificaciones :
                   /\ n.id = i
                   /\ n.procesada
                   /\ \E e \in Entregados :
                         e.kind = n.tipo /\ e.ref = i /\ e.user_id = n.user_id)

\* ------------------------------------------------------------ properties of a new subscription
UltimoDia(y, m) == monthrange(y, m)

\* the month the first charge falls in: the one after today when the day has come
MesObjetivo(dia_cobro) ==
    IF dia_cobro <= hoy.d
    THEN IF hoy.m = 12 THEN [y |-> hoy.y + 1, m |-> 1] ELSE [y |-> hoy.y, m |-> hoy.m + 1]
    ELSE [y |-> hoy.y, m |-> hoy.m]

Alta(dia_cobro) == {s \in suscripciones' \ suscripciones : s.dia_cobro = dia_cobro}

\* C23: for every charge day in 1..31 and every creation date, add_subscription with
\* otherwise valid inputs stores a subscription whose next charge date is in the
\* following month when charge_day <= today.day and in the current month otherwise,
\* the day clamped to the last day of that month.
C23_NextChargeDate ==
    [][\A d \in 1..31 :
          (seq.suscripciones < MaxSuscripciones
           /\ AgregarSuscripcion(42, "Netflix", 4, "Ocio", d))
          => \E s \in Alta(d) :
                LET t == MesObjetivo(d)
                IN s.proximo_cobro = date(t.y, t.m, Min(d, UltimoDia(t.y, t.m)))
    ]_vars

FebreroUltimo(y) == date(y, 2, IF isleap(y) THEN 29 ELSE 28)

\* C24 as stated: a subscription with charge_day = 31 created on any day of January
\* gets next_charge_date equal to the last day of February of that year.
C24_JanuaryToFebruary ==
    [][(hoy.m = 1
        /\ seq.suscripciones < MaxSuscripciones
        /\ AgregarSuscripcion(42, "Netflix", 4, "Ocio", 31))
       => \E s \in Alta(31) : s.proximo_cobro = FebreroUltimo(hoy.y)
    ]_vars

\* C24 amended: a subscription with charge_day = 31 created on January 31 gets the
\* last day of February of that year (the 28th, or the 29th in a leap year); created
\* on an earlier day of January it gets January 31 of that year.
C24_JanuaryThirtyFirst ==
    [][(hoy.m = 1
        /\ seq.suscripciones < MaxSuscripciones
        /\ AgregarSuscripcion(42, "Netflix", 4, "Ocio", 31))
       => \E s \in Alta(31) :
             s.proximo_cobro = IF hoy.d = 31 THEN FebreroUltimo(hoy.y)
                               ELSE date(hoy.y, 1, 31)
    ]_vars

\* a subscription of day 31 created on 2024-01-31, first due on 2024-02-29
C24_Witness ==
    /\ hoy = date(2024, 1, 31)
    /\ \E s \in suscripciones :
          s.dia_cobro = 31 /\ s.activo /\ s.proximo_cobro = date(2024, 2, 29)

\* ------------------------------------------------------------ properties of the dialogs
EnPaso(store, user_id, pasos) == {s \in dict_get(store, user_id) : s.step \in pasos}

PasosDeMonto == {"monto_" \o t : t \in MOVEMENT_TYPES}

\* C25: in the add-movement dialog a text message writes a movement only when the
\* principal's state is at descripcion_movimiento; that step is entered only by a text
\* at a monto_<tipo> step that carried a category, with an amount the validator
\* accepts, and a monto_<tipo> step is entered only by choosing a category or by
\* creating one at nueva_categoria_<tipo>; the movement written has the kind, category
\* and amount of the state, it is the only row written, and the state is gone after it.
C25_AddMovementDialog ==
    [][\A u \in Users :
         /\ (update'.kind = "text" /\ update'.from_id = u /\ movimientos' # movimientos) =>
               \E s \in EnPaso(user_states, u, {"descripcion_movimiento"}),
                  r \in movimientos' \ movimientos :
                  /\ movimientos' = movimientos \cup {r}
                  /\ r.user_id = u
                  /\ r.tipo = s.tipo
                  /\ r.categoria = s.categoria
                  /\ r.monto = s.monto
                  /\ dict_get(user_states', u) = {}
         /\ \A s2 \in EnPaso(user_states', u, {"descripcion_movimiento"}) \
                        dict_get(user_states, u) :
               \E s \in EnPaso(user_states, u, PasosDeMonto) :
                  /\ update'.kind = "text"
                  /\ s.step = "monto_" \o s.tipo
                  /\ s.categoria # ""
                  /\ s2.tipo = s.tipo
                  /\ s2.categoria = s.categoria
                  /\ MIN_AMOUNT <= s2.monto /\ s2.monto <= MAX_AMOUNT
         /\ \A s2 \in EnPaso(user_states', u, PasosDeMonto) \ dict_get(user_states, u) :
               /\ s2.step = "monto_" \o s2.tipo
               /\ s2.categoria # ""
               /\ s2.monto = 0
               /\ \/ update'.kind = "callback"
                  \/ /\ update'.kind = "text"
                     /\ EnPaso(user_states, u, {"nueva_categoria_" \o s2.tipo}) # {}
                     /\ \E c \in categorias' \ categorias :
                           c.nombre = s2.categoria /\ c.tipo = s2.tipo /\ c.user_id = u
    ]_vars

\* a movement of a category the principal created in the dialog has just been written
C25_Witness ==
    /\ update.kind = "text"
    /\ llamada.op = "clear"
    /\ dict_get(user_states, AUTHORIZED_USER_ID) = {}
    /\ \E r \in movimientos :
          r.tipo = "gasto" /\ r.categoria = "Ana" /\ r.monto = 4 /\ r.descripcion = "Ana"

\* C26: in the add-debt dialog, when the principal has supplied a name (the state
\* waits for the direction) and then chooses a direction, the state that waits for the
\* amount carries that name and that direction; and a text that the state waiting for
\* the amount does not hold back records exactly one active debt with the name, the
\* direction and a non-negative amount, and leaves no state.
C26_AddDebtDialog ==
    [][\A u \in Users :
         /\ \A s \in EnPaso(user_states, u, {"deuda_tipo"}) :
               (update'.kind = "callback"
                  /\ EnPaso(user_states', u, {"deuda_monto"}) # {}) =>
               \A s2 \in EnPaso(user_states', u, {"deuda_monto"}) :
                  s2.nombre = s.nombre /\ s2.tipo \in DEBT_TYPES
         /\ \A s \in EnPaso(user_states, u, {"deuda_monto"}) :
               (s.nombre # "" /\ update'.kind = "text"
                  /\ dict_get(user_states', u) # {s}) =>
               \E r \in deudas' \ deudas :
                  /\ deudas' = deudas \cup {r}
                  /\ r.user_id = u
                  /\ r.nombre = s.nombre
                  /\ r.tipo = s.tipo
                  /\ r.monto >= 0
                  /\ r.activa
                  /\ dict_get(user_states', u) = {}
    ]_vars

Configurado(tabla, user_id) == user_id \in DOMAIN tabla /\ tabla[user_id].configurado

\* C27: a principal becomes configured only by a text at the balance_inicial step
\* that stores an amount in 0..MAX_AMOUNT as its initial balance; once it is configured
\* it stays so, and its initial balance changes only by a text that the
\* config_nuevo_balance step accepts; a text the balance_inicial step does not accept
\* leaves the principal as it was and the state at that step.
C27_ConfiguredBySetup ==
    [][\A u \in Users :
         /\ (Configurado(usuarios', u) /\ ~Configurado(usuarios, u)) =>
               /\ update' = Evento("text", u)
               /\ EnPaso(user_states, u, {"balance_inicial"}) # {}
               /\ \E t \in TextosDialogo :
                     /\ is_valid_amount(t, TRUE)
                     /\ usuarios'[u].balance_inicial = Numero(t)
         /\ Configurado(usuarios, u) =>
               /\ Configurado(usuarios', u)
               /\ usuarios'[u].balance_inicial # usuarios[u].balance_inicial =>
                     /\ update' = Evento("text", u)
                     /\ EnPaso(user_states, u, {"config_nuevo_balance"}) # {}
                     /\ \E t \in TextosDialogo :
                           /\ is_valid_amount(t, TRUE)
                           /\ usuarios'[u].balance_inicial = Numero(t)
         /\ \A t \in TextosDialogo :
               (/\ ~is_valid_amount(t, TRUE)
                /\ EnPaso(user_states, u, {"balance_inicial"}) # {}
                /\ handle_text_input(u, t)) =>
               /\ usuarios' = usuarios
               /\ ~Configurado(usuarios', u)
               /\ dict_get(user_states', u) = dict_get(user_states, u)
    ]_vars

\* the setup has just accepted a zero balance
C27_Witness ==
    /\ update = Evento("text", AUTHORIZED_USER_ID)
    /\ llamada.op = "clear"
    /\ Configurado(usuarios, AUTHORIZED_USER_ID)
    /\ usuarios[AUTHORIZED_USER_ID].balance_inicial = 0

\* C28: /gasto or /ingreso with an amount the validator accepts writes exactly one
\* movement of that kind and amount, in the category that comes first by name among
\* the principal's active categories of the kind, or in "Otros" when there is none;
\* the state store is neither called nor changed.
C28_FastPath ==
    [][\A u \in Users, t \in TextosRapidos, tipo \in {"gasto", "ingreso"} :
         (/\ is_authorized(u)
          /\ is_valid_amount(t, FALSE)
          /\ IF tipo = "gasto" THEN handle_gasto_rapido(u, t)
             ELSE handle_ingreso_rapido(u, t)) =>
         /\ \E r \in movimientos' \ movimientos :
               /\ movimientos' = movimientos \cup {r}
               /\ r.user_id = u
               /\ r.tipo = tipo
               /\ r.monto = Numero(t)
               /\ IF obtener_categorias(tipo, u) = {}
                  THEN r.categoria = "Otros"
                  ELSE /\ r.categoria \in obtener_categorias(tipo, u)
                       /\ \A n \in obtener_categorias(tipo, u) :
                             OrdenNombre[r.categoria] <= OrdenNombre[n]
         /\ user_states' = user_states
         /\ inserciones' = inserciones
         /\ llamada' = llamada
    ]_vars

\* /gasto has just written into the category the principal created, while the dialog
\* that created it still waits for its amount
C28_Witness ==
    /\ update = Evento("gasto", AUTHORIZED_USER_ID)
    /\ EnPaso(user_states, AUTHORIZED_USER_ID, {"monto_gasto"}) # {}
    /\ \E r \in movimientos :
          r.tipo = "gasto" /\ r.categoria = "Ana" /\ r.descripcion = "" /\ r.monto = 4
    /\ \E c \in categorias : c.nombre = "Comida" /\ c.tipo = "gasto" /\ c.activa

\* what a dialog commits into
Libro == <<usuarios, movimientos, suscripciones, recordatorios, deudas, alertas>>

\* C29: whenever the handling of a text message commits (it writes a movement, a
\* subscription, a reminder, a debt, an alert or the principal's balance), the
\* principal has no conversation state once the message has been handled.
C29_CommitClearsState ==
    [][\A u \in Users :
         (update' = Evento("text", u) /\ Libro' # Libro) => dict_get(user_states', u) = {}
    ]_vars

\* the validation each text step applies to what it is sent
Rechaza(step, text) ==
    CASE step \in {"balance_inicial", "config_nuevo_balance"} -> ~is_valid_amount(text, TRUE)
      [] step \in {"nueva_categoria_" \o t : t \in MOVEMENT_TYPES} ->
           ~is_valid_category_name(text)
      [] step \in PasosDeMonto \cup {"suscripcion_monto", "alerta_monto"} ->
           ~is_valid_amount(text, FALSE)
      [] step = "suscripcion_nombre" -> ~is_valid_subscription_name(text)
      [] step = "suscripcion_dia" -> ~(1 <= Entero(text) /\ Entero(text) <= 31)
      [] step = "recordatorio_descripcion" -> ~is_valid_description(text)
      [] step = "recordatorio_fecha" -> parse_date(text) = {}
      [] step = "deuda_nombre" -> Len(text) < 2 \/ nombre_deuda_muy_largo(text)
      [] step = "deuda_monto" -> ~is_valid_amount(sin_signo(text), FALSE)
      [] OTHER -> FALSE

\* C30: at every step that takes a text, a text the step's validation rejects leaves
\* the principal's state as it was, step, payload and timestamp, and leaves every
\* table as it was.
C30_InvalidInputHeld ==
    [][\A u \in Users, t \in TextosDialogo :
         (/\ \E s \in dict_get(user_states, u) : Rechaza(s.step, t)
          /\ handle_text_input(u, t)) =>
         /\ dict_get(user_states', u) = dict_get(user_states, u)
         /\ UNCHANGED <<usuarios, categorias, movimientos, suscripciones, alertas,
                        resumen_mensual, balance_diario, notificaciones, seq,
                        recordatorios, deudas>>
    ]_vars

\* a text that is no date was sent to the step that waits for the date of a reminder,
\* and the step still waits with the description it had
C30_Witness ==
    /\ update = Evento("text", AUTHORIZED_USER_ID)
    /\ llamada.op = "get"
    /\ \E s \in EnPaso(user_states, AUTHORIZED_USER_ID, {"recordatorio_fecha"}) :
          s.descripcion = "Ana"
    /\ recordatorios = {}

\* ------------------------------------------------------------ properties of the threads
\* C31: the sweep of the state store never fails because a handler thread changed the
\* dict while it ran, and the dict never holds more than MAX_USER_STATES entries.
C31_StoreMutex ==
    /\ error.op # "limpiar_estados_usuario"
    /\ Len(user_states) <= MAX_USER_STATES

\* ------------------------------------------------------------ properties of polling and shutdown
\* C32: in shutdown is_running is false before the poller is told to stop, the poller
\* is told to stop before the scheduler's stop is invoked, stop returns after a join
\* of at most JOIN_TIMEOUT seconds, and the pool is closed only after stop returned.
C32_ShutdownOrder ==
    [][/\ bot'.invocado => ~bot'.is_running
       /\ bot'.poller = "told" => bot'.invocado
       /\ bot'.parada # "none" => bot'.poller = "told"
       /\ bot'.cerrado => bot'.parada = "returned"
       /\ (bot.parada = "invoked" /\ bot'.parada = "returned")
             => now' - now <= JOIN_TIMEOUT
    ]_vars

\* the pool was closed after a join that timed out on a worker inside a task
C32_Witness ==
    /\ bot.cerrado
    /\ bot.parada = "returned"
    /\ \E w \in Ejecutando : w = scheduler_thread

\* C33 as stated: a conflict reported by the transport is fatal only after three
\* retries have been made.
C33_ThreeRetries ==
    bot.causa = "409" => bot.esperas = 3

\* C33: a conflict is retried after retry_delay seconds while fewer than
\* max_retries - 1 retries have been made and is fatal at the attempt number
\* max_retries; any other error is fatal at once; a fatal error is never followed by
\* another attempt, and when start_polling is left shutdown has been invoked and the
\* error raised again.
C33_ThreeAttempts ==
    [][/\ PollingFalla("409")
            => IF bot.esperas < max_retries - 1
               THEN bot'.pc = "sleep" /\ bot'.esperas = bot.esperas + 1
               ELSE bot'.pc = "shutdown" /\ bot'.causa = "409"
       /\ PollingFalla("otro")
            => (bot'.pc = "shutdown" /\ bot'.causa = "otro" /\ bot'.esperas = bot.esperas)
       /\ Reintentar => now' = now + retry_delay
       /\ bot'.causa \in {"409", "otro"} => bot'.pc \notin {"polling", "sleep"}
       /\ (bot'.pc = "end" /\ bot'.causa \in {"409", "otro"})
            => (bot'.invocado /\ bot'.surfaced)
    ]_vars

\* the third conflict in a row was fatal, after two back-offs
C33_Witness ==
    /\ bot.pc = "end"
    /\ bot.causa = "409"
    /\ bot.esperas = max_retries - 1
    /\ now = (max_retries - 1) * retry_delay
    /\ bot.surfaced

\* C40: once close_all has returned in shutdown and no scope is in progress any
\* more, the pool retains no connection.
C40_PoolDrained ==
    (bot.cerrado /\ \A t \in Hilos : hilos[t] = "fuera") => conexiones = 0

\* ------------------------------------------------------------ properties of the rows
\* C34: every persisted movement, written by agregar_movimiento or by
\* procesar_suscripcion, has mes equal to the month of its fecha and anio equal to
\* the year of its fecha.
C34_PeriodAgrees ==
    \A mv \in movimientos : mv.mes = mv.fecha.m /\ mv.anio = mv.fecha.y

\* a movement entered by hand and a charge of a subscription, written in different
\* years
C34_Witness ==
    \E a, b \in movimientos :
       /\ a.descripcion = "almuerzo"
       /\ \E c \in cobros : c.mov = b.id
       /\ a.fecha.y # b.fecha.y

\* one calendar month after the date f, on the charge day clamped to that month
UnMesDespues(f, dia_cobro) ==
    LET y == IF f.m = 12 THEN f.y + 1 ELSE f.y
        m == IF f.m = 12 THEN 1 ELSE f.m + 1
    IN date(y, m, IF dia_cobro < monthrange(y, m) THEN dia_cobro ELSE monthrange(y, m))

\* C35 as stated: a charge moves proximo_cobro one calendar month on from its
\* previous value, also when the charge is late.
C35_AdvanceFromPrevious ==
    [][\A s \in suscripciones :
          (ProcesarPendiente(s.id) /\ s.activo)
          => \E t \in suscripciones' :
                t.id = s.id /\ t.proximo_cobro = UnMesDespues(s.proximo_cobro, s.dia_cobro)
    ]_vars

\* C35: a charge sets proximo_cobro to the charge day, clamped, of the month after
\* the day of processing: one calendar month after the previous value when the charge
\* is made in the month it fell due, and in any case a date after today, so that a
\* subscription overdue by more than a month is charged once and is no longer pending.
C35_AdvanceFromToday ==
    [][\A s \in suscripciones :
          (ProcesarPendiente(s.id) /\ s.activo)
          => \E t \in suscripciones' :
                /\ t.id = s.id
                /\ t.proximo_cobro = UnMesDespues(hoy, s.dia_cobro)
                /\ (s.proximo_cobro.m = hoy.m /\ s.proximo_cobro.y = hoy.y)
                      => t.proximo_cobro = UnMesDespues(s.proximo_cobro, s.dia_cobro)
                /\ IsoKey(t.proximo_cobro) > IsoKey(hoy)
                /\ Cardinality(movimientos') = Cardinality(movimientos) + 1
    ]_vars

\* a subscription that fell due in February 2023 was charged on the last day of
\* December and is next due in January 2024
C35_Witness ==
    \E s \in suscripciones, c \in cobros :
       /\ c.sid = s.id
       /\ c.fecha = date(2023, 12, 31)
       /\ s.proximo_cobro.y = 2024
       /\ Cardinality({x \in cobros : x.sid = s.id}) = 1

\* ------------------------------------------------------------ properties of the reads
\* the totals and the balance a finished read returned are those of the ledger libro
DeUnLibro(libro) ==
    LET filas == FilasLeidas(libro, lectura.op, lectura.user_id, lectura.fecha)
    IN /\ lectura.ingresos = SumMonto({r \in filas : r.tipo = "ingreso"})
       /\ lectura.gastos = SumMonto({r \in filas : r.tipo = "gasto"})
       /\ lectura.ahorros = SumMonto({r \in filas : r.tipo = "ahorro"})
       /\ lectura.balance =
             (IF lectura.user_id \in DOMAIN usuarios
              THEN usuarios[lectura.user_id].balance_inicial ELSE 0)
             + SumFirmada({r \in libro : r.user_id = lectura.user_id})

\* C36: the totals per tipo and the balance returned by one obtener_resumen_mes or
\* obtener_balance_diario are computed from one and the same state of the ledger,
\* also when a movement is committed while the call is in progress.
C36_AtomicRead ==
    lectura.pc = "done" => (DeUnLibro(lectura.antes) \/ DeUnLibro(lectura.despues))

\* ------------------------------------------------------------ properties of a charge that finds no row
\* C37: procesar_suscripcion of an id with no active row writes no movement and
\* changes no proximo_cobro, and the pass that listed a subscription the principal
\* deactivated before its turn does not charge it and sends no notification.
C37_InactiveNotCharged ==
    [][\A i \in 1..MaxSuscripciones :
          (ProcesarPendiente(i) /\ ~\E s \in suscripciones : s.id = i /\ s.activo)
          => /\ movimientos' = movimientos
             /\ suscripciones' = suscripciones
             /\ cobros' = cobros
             /\ enviados' = enviados
             /\ seq' = seq
    ]_vars

\* the pass came to a listed subscription that had been deactivated in the meantime
C37_Witness ==
    /\ error = [op |-> "verificar_suscripciones", paso |-> "sin resultado"]
    /\ \E s \in suscripciones : ~s.activo /\ IsoKey(s.proximo_cobro) <= IsoKey(hoy)
    /\ cobros = {}

\* ------------------------------------------------------------ properties of the keys of the store
\* C38: every entry of the state store is keyed by the authorized principal, so the
\* store holds at most one entry.
C38_OnlyPrincipal ==
    /\ \A i \in 1..Len(user_states) : user_states[i].user_id = AUTHORIZED_USER_ID
    /\ Len(user_states) <= 1

\* a button of somebody else was handled while the principal was in a dialog
C38_Witness ==
    /\ update.from_id # AUTHORIZED_USER_ID
    /\ update.from_id \in Users
    /\ update.kind = "callback"
    /\ Len(user_states) = 1

\* ------------------------------------------------------------ properties of leaving a dialog
\* C39: the button that cancels a dialog or goes back to the menu leaves no
\* conversation state for the principal and commits nothing, whatever step the dialog
\* was at.
C39_CancelLeavesNothing ==
    [][handle_callback_query(AUTHORIZED_USER_ID, "back_to_menu")
          => /\ dict_get(user_states', AUTHORIZED_USER_ID) = {}
             /\ movimientos' = movimientos
    ]_vars

====
